---------------------------- MODULE Spec2Model ----------------------------
(***************************************************************************)
(* A model of the LenderPro loan tracker: the calendar helpers, the        *)
(* amortization schedule generator (utils), the loan form handlers of the  *)
(* Loans page and the StorageService ledger operations.                    *)
(*                                                                         *)
(* Numbers.  The program computes money with IEEE doubles.  The model      *)
(* computes the same expressions, in the same order, over exact rationals  *)
(* <<numerator, denominator>> in lowest terms.  Statements of the form     *)
(* "the stored total is the sum of the list" compare two results of the    *)
(* same summation and read the same in both arithmetics; statements with   *)
(* a one-cent tolerance are about the real-number value, from which a      *)
(* double differs by a relative 2^-53 per operation.                       *)
(*                                                                         *)
(* Dates.  A JavaScript Date at local noon is modelled by its day number   *)
(* (days since 1970-01-01); a 'YYYY-MM-DD' string by the record            *)
(* [y, m, d].  parseDate and toISODate are the conversions between both.   *)
(***************************************************************************)
EXTENDS Integers, Sequences, FiniteSets, TLC

(***************************************************************************)
(* Enumerations (types.ts)                                                 *)
(***************************************************************************)
DAILY == "Diario"
WEEKLY == "Semanal"
BIWEEKLY == "Quincenal"
MONTHLY == "Mensual"
Frequency == {DAILY, WEEKLY, BIWEEKLY, MONTHLY}

SIMPLE == "Interes Simple"
FRENCH == "Sistema Frances"
LoanType == {SIMPLE, FRENCH}

PERCENTAGE == "Porcentaje (%)"
FIXED_AMOUNT == "Monto Fijo ($)"
InterestType == {PERCENTAGE, FIXED_AMOUNT}

ACTIVE == "Activo"
COMPLETED == "Pagado"
DEFAULTED == "En Mora"
LoanStatus == {ACTIVE, COMPLETED, DEFAULTED}

PENDING == "Pendiente"
PAID == "Pagado"
LATE == "Vencido"
InstallmentStatus == {PENDING, PAID, LATE}

\* the value of an optional field that is not set (paymentDate?: string)
undefined == "undefined"
\* the JavaScript null where the other values are strings (an id, a returned Loan
\* named by its id)
null == "null"
\* a value that may be null or missing (a cache not yet loaded, a storage key
\* not set, a result not yet computed) is a sequence of at most one element:
\* Absent for null, Present(x) for the value x
Absent == <<>>
Present(x) == <<x>>
IsAbsent(v) == Len(v) = 0
The(v) == v[1]

(***************************************************************************)
(* Numbers: exact rationals in lowest terms, denominator > 0               *)
(***************************************************************************)
Abs(x) == IF x < 0 THEN -x ELSE x

RECURSIVE GCD(_, _)
GCD(a, b) == IF b = 0 THEN a ELSE GCD(b, a % b)

\* the number n/d (d # 0), normalised
Num(n, d) ==
    LET g == GCD(Abs(n), Abs(d))
        s == IF d < 0 THEN -1 ELSE 1
    IN  <<s * (n \div g), s * (d \div g)>>

Whole(n) == <<n, 1>>
Zero == Whole(0)

\* a + b
Add(a, b) ==
    LET g == GCD(a[2], b[2])
    IN  Num(a[1] * (b[2] \div g) + b[1] * (a[2] \div g), (a[2] \div g) * b[2])

\* a - b
Sub(a, b) == Add(a, <<-b[1], b[2]>>)

\* a * b
Mul(a, b) ==
    LET g1 == GCD(Abs(a[1]), b[2])
        g2 == GCD(Abs(b[1]), a[2])
    IN  IF a[1] = 0 \/ b[1] = 0 THEN Zero
        ELSE Num((a[1] \div g1) * (b[1] \div g2), (a[2] \div g2) * (b[2] \div g1))

\* a / b, b # 0
Div(a, b) == Mul(a, Num(b[2], b[1]))

\* a < b
Lt(a, b) == Sub(a, b)[1] < 0

\* Math.pow(a, n) for an integer n >= 0
RECURSIVE Pow(_, _)
Pow(a, n) == IF n = 0 THEN Whole(1) ELSE Mul(a, Pow(a, n - 1))

(***************************************************************************)
(* Dates (utils.ts, date helpers)                                          *)
(***************************************************************************)
\* days since 1970-01-01 of the proleptic Gregorian date y-m-d, m in 1..12
DaysFromCivil(y, m, d) ==
    LET yy == IF m <= 2 THEN y - 1 ELSE y
        era == yy \div 400
        yoe == yy - era * 400
        mp == IF m > 2 THEN m - 3 ELSE m + 9
        doy == (153 * mp + 2) \div 5 + d - 1
        doe == yoe * 365 + yoe \div 4 - yoe \div 100 + doy
    IN  era * 146097 + doe - 719468

\* the calendar fields of day number z: getFullYear, getMonth() + 1, getDate
CivilFromDays(z) ==
    LET zz == z + 719468
        era == zz \div 146097
        doe == zz - era * 146097
        yoe == (doe - doe \div 1460 + doe \div 36524 - doe \div 146096) \div 365
        doy == doe - (365 * yoe + yoe \div 4 - yoe \div 100)
        mp == (5 * doy + 2) \div 153
        d == doy - (153 * mp + 2) \div 5 + 1
        m == IF mp < 10 THEN mp + 3 ELSE mp - 9
    IN  [y |-> IF m <= 2 THEN yoe + era * 400 + 1 ELSE yoe + era * 400, m |-> m, d |-> d]

\* new Date(year, monthIndex, day, 12, 0, 0): month index and day of any size
\* roll over into the neighbouring months and years
MakeDate(year, monthIndex, day) ==
    LET ym == year * 12 + monthIndex
    IN  DaysFromCivil(ym \div 12, (ym % 12) + 1, 1) + (day - 1)

\* parseDate of a plain 'YYYY-MM-DD' string
parseDate(dateStr) == MakeDate(dateStr.y, dateStr.m - 1, dateStr.d)

\* toISODate
toISODate(date) == CivilFromDays(date)

\* addTime with the month index taken as 1-based: every Monthly call adds one month
\* too many
addTime_monthOffByOne(date, frequency, count) ==
    LET r == CivilFromDays(date)
    IN  CASE frequency = DAILY -> MakeDate(r.y, r.m - 1, r.d + count)
          [] frequency = WEEKLY -> MakeDate(r.y, r.m - 1, r.d + (count * 7))
          [] frequency = BIWEEKLY -> MakeDate(r.y, r.m - 1, r.d + (count * 15))
          [] frequency = MONTHLY -> MakeDate(r.y, r.m + count, r.d)
          [] OTHER -> date

\* addTime by chaining: count steps of one period, each from the date reached
RECURSIVE addTime_chained(_, _, _)
addTime_chained(date, frequency, count) ==
    IF count <= 0 THEN date
    ELSE LET r == CivilFromDays(addTime_chained(date, frequency, count - 1))
         IN  CASE frequency = DAILY -> MakeDate(r.y, r.m - 1, r.d + 1)
               [] frequency = WEEKLY -> MakeDate(r.y, r.m - 1, r.d + 7)
               [] frequency = BIWEEKLY -> MakeDate(r.y, r.m - 1, r.d + 15)
               [] frequency = MONTHLY -> MakeDate(r.y, r.m, r.d)
               [] OTHER -> date

\* addTime with a Monthly overflow that keeps the day of the month: a day the
\* target month lacks becomes that day of the following month
addTime_overflowKeepsDay(date, frequency, count) ==
    LET r == CivilFromDays(date)
    IN  CASE frequency = DAILY -> MakeDate(r.y, r.m - 1, r.d + count)
          [] frequency = WEEKLY -> MakeDate(r.y, r.m - 1, r.d + (count * 7))
          [] frequency = BIWEEKLY -> MakeDate(r.y, r.m - 1, r.d + (count * 15))
          [] frequency = MONTHLY ->
               IF CivilFromDays(MakeDate(r.y, r.m - 1 + count, r.d)).d = r.d
               THEN MakeDate(r.y, r.m - 1 + count, r.d)
               ELSE MakeDate(r.y, r.m + count, r.d)
          [] OTHER -> date

\* addTime with a Biweekly period of two weeks
addTime_biweeklyFourteen(date, frequency, count) ==
    LET r == CivilFromDays(date)
    IN  CASE frequency = DAILY -> MakeDate(r.y, r.m - 1, r.d + count)
          [] frequency = WEEKLY -> MakeDate(r.y, r.m - 1, r.d + (count * 7))
          [] frequency = BIWEEKLY -> MakeDate(r.y, r.m - 1, r.d + (count * 14))
          [] frequency = MONTHLY -> MakeDate(r.y, r.m - 1 + count, r.d)
          [] OTHER -> date

\* addTime
addTime(date, frequency, count) ==
    LET r == CivilFromDays(date)
    IN  CASE frequency = DAILY -> MakeDate(r.y, r.m - 1, r.d + count)
          [] frequency = WEEKLY -> MakeDate(r.y, r.m - 1, r.d + (count * 7))
          [] frequency = BIWEEKLY -> MakeDate(r.y, r.m - 1, r.d + (count * 15))
          [] frequency = MONTHLY -> MakeDate(r.y, r.m - 1 + count, r.d)
          [] OTHER -> date

\* the safety limit of the loop of calculateDurationFromDates
LoopLimit == 1200

\* the loop breaking already when the next date reaches the end date (>= for >)
RECURSIVE LoopExit_breakOnEqual(_, _, _, _, _)
LoopExit_breakOnEqual(startDate, endDate, frequency, lo, hi) ==
    IF lo > hi THEN lo
    ELSE IF lo = hi
    THEN IF addTime(startDate, frequency, lo + 1) >= endDate THEN lo ELSE lo + 1
    ELSE LET mid == (lo + hi) \div 2
             first == LoopExit_breakOnEqual(startDate, endDate, frequency, lo, mid)
         IN  IF first <= mid THEN first
             ELSE LoopExit_breakOnEqual(startDate, endDate, frequency, mid + 1, hi)

\* the while loop of calculateDurationFromDates run for count = lo, lo + 1, ..., hi
\* in this order: the first count at which it breaks (the next date exceeds the
\* end date), or hi + 1 when it breaks at none of them.  The range is scanned in
\* halves so that the evaluation nests only logarithmically deep.
RECURSIVE LoopExit(_, _, _, _, _)
LoopExit(startDate, endDate, frequency, lo, hi) ==
    IF lo > hi THEN lo
    ELSE IF lo = hi
    THEN IF addTime(startDate, frequency, lo + 1) > endDate THEN lo ELSE lo + 1
    ELSE LET mid == (lo + hi) \div 2
             first == LoopExit(startDate, endDate, frequency, lo, mid)
         IN  IF first <= mid THEN first
             ELSE LoopExit(startDate, endDate, frequency, mid + 1, hi)

\* the loop with twice the safety limit
DurationLoop_doubleLimit(startDate, endDate, frequency) ==
    LoopExit(startDate, endDate, frequency, 0, 2 * LoopLimit - 1)

\* the value of count when the loop `while (count < 1200)` ends
DurationLoop(startDate, endDate, frequency) ==
    LoopExit(startDate, endDate, frequency, 0, LoopLimit - 1)

\* the count returned as it is, without the floor of 1
calculateDurationFromDates_noFloor(start, end, frequency) ==
    LET startDate == parseDate(start)
        endDate == parseDate(end)
    IN  IF endDate <= startDate THEN 0 ELSE DurationLoop(startDate, endDate, frequency)

\* calculateDurationFromDates
calculateDurationFromDates(start, end, frequency) ==
    LET startDate == parseDate(start)
        endDate == parseDate(end)
        count == DurationLoop(startDate, endDate, frequency)
    IN  IF endDate <= startDate THEN 1
        ELSE IF count > 0 THEN count ELSE 1

(***************************************************************************)
(* Financial core (utils.ts, calculateSchedule)                            *)
(***************************************************************************)
\* variableRates is a function from the installment numbers that carry an
\* override to the new rate; the omitted argument is the empty function
NoRates == <<>>

\* variableRates && variableRates[i] !== undefined
HasRate(variableRates, i) == i \in DOMAIN variableRates

\* an installment numbered from 0
NewInstallment_numbersFromZero(number, dueDate, amount, capital, interest) ==
    [number |-> number - 1, dueDate |-> dueDate, amount |-> amount, capital |-> capital,
     interest |-> interest, status |-> PENDING, paymentDate |-> undefined]

\* an element of Installment[] as calculateSchedule pushes it
NewInstallment(number, dueDate, amount, capital, interest) ==
    [number |-> number, dueDate |-> dueDate, amount |-> amount, capital |-> capital,
     interest |-> interest, status |-> PENDING, paymentDate |-> undefined]

\* the terms counted from the original term, not from the installment reached
RemainingTerms_originalTerm(duration, k) == duration

\* const remainingTerms = duration - k + 1
RemainingTerms(duration, k) == duration - k + 1

\* the installment amount (PMT) computed at installment k for the balance left
Pmt(remainingCapital, currentRate, duration, k) ==
    LET i == Div(currentRate, Whole(100))
        remainingTerms == RemainingTerms(duration, k)
    IN  IF i = Zero
        THEN Div(remainingCapital, Whole(remainingTerms))
        ELSE Div(Mul(remainingCapital, Mul(i, Pow(Add(Whole(1), i), remainingTerms))),
                 Sub(Pow(Add(Whole(1), i), remainingTerms), Whole(1)))

\* the smallest balance the French loop keeps: below it the balance is set to 0
BalanceEpsilon == <<1, 100>>

\* if (remainingCapital < 0.01) remainingCapital = 0
ClampBalance(remainingCapital) ==
    IF Lt(remainingCapital, BalanceEpsilon) THEN Zero ELSE remainingCapital

\* a Simple loop that divides by the installments still to come
RECURSIVE SimpleLoop_remainingCount(_, _, _, _, _, _, _, _, _)
SimpleLoop_remainingCount(i, currentRate0, installments, amount, interestType, frequency, duration, startDate, variableRates) ==
    IF i > duration THEN installments
    ELSE LET currentRate == IF HasRate(variableRates, i) THEN variableRates[i]
                            ELSE currentRate0
             capitalPerInstallment == Div(amount, Whole(duration))
             currentDate == addTime(parseDate(startDate), frequency, i)
             interestForPeriod ==
                 IF interestType = FIXED_AMOUNT
                 THEN Div(currentRate, Whole(duration - i + 1))
                 ELSE Div(Mul(amount, Div(currentRate, Whole(100))), Whole(duration - i + 1))
         IN  SimpleLoop_remainingCount(i + 1, currentRate,
                        Append(installments,
                               NewInstallment(i, toISODate(currentDate),
                                              Add(capitalPerInstallment, interestForPeriod),
                                              capitalPerInstallment, interestForPeriod)),
                        amount, interestType, frequency, duration, startDate, variableRates)

\* the Simple loop from installment i on, with the rate in force before i
RECURSIVE SimpleLoop(_, _, _, _, _, _, _, _, _)
SimpleLoop(i, currentRate0, installments, amount, interestType, frequency, duration, startDate, variableRates) ==
    IF i > duration THEN installments
    ELSE LET currentRate == IF HasRate(variableRates, i) THEN variableRates[i]
                            ELSE currentRate0
             capitalPerInstallment == Div(amount, Whole(duration))
             currentDate == addTime(parseDate(startDate), frequency, i)
             interestForPeriod ==
                 IF interestType = FIXED_AMOUNT
                 THEN Div(currentRate, Whole(duration))
                 ELSE Div(Mul(amount, Div(currentRate, Whole(100))), Whole(duration))
         IN  SimpleLoop(i + 1, currentRate,
                        Append(installments,
                               NewInstallment(i, toISODate(currentDate),
                                              Add(capitalPerInstallment, interestForPeriod),
                                              capitalPerInstallment, interestForPeriod)),
                        amount, interestType, frequency, duration, startDate, variableRates)

\* a pass that charges interest at the rate in force before the installment,
\* an override taking effect on the interest one installment late
FrenchStep_staleRateInterest(k, st, frequency, duration, startDate, variableRates) ==
    LET rateChanged == HasRate(variableRates, k)
        currentRate == IF rateChanged THEN variableRates[k] ELSE st.currentRate
        pmt == IF k = 1 \/ rateChanged
               THEN Pmt(st.remainingCapital, currentRate, duration, k)
               ELSE st.installmentAmount
        interestPayment == Mul(st.remainingCapital, Div(st.currentRate, Whole(100)))
        capitalPayment == IF k = duration THEN st.remainingCapital
                          ELSE Sub(pmt, interestPayment)
        installmentAmount == IF k = duration THEN Add(capitalPayment, interestPayment)
                             ELSE pmt
        currentDate == addTime(parseDate(startDate), frequency, k)
    IN  [currentRate |-> currentRate,
         installmentAmount |-> installmentAmount,
         remainingCapital |-> ClampBalance(Sub(st.remainingCapital, capitalPayment)),
         installments |-> Append(st.installments,
                                 NewInstallment(k, toISODate(currentDate), installmentAmount,
                                                capitalPayment, interestPayment))]

\* a pass whose last installment pays the interest only
FrenchStep_interestOnlyLast(k, st, frequency, duration, startDate, variableRates) ==
    LET rateChanged == HasRate(variableRates, k)
        currentRate == IF rateChanged THEN variableRates[k] ELSE st.currentRate
        pmt == IF k = 1 \/ rateChanged
               THEN Pmt(st.remainingCapital, currentRate, duration, k)
               ELSE st.installmentAmount
        interestPayment == Mul(st.remainingCapital, Div(currentRate, Whole(100)))
        capitalPayment == IF k = duration THEN Zero ELSE Sub(pmt, interestPayment)
        installmentAmount == IF k = duration THEN interestPayment ELSE pmt
        currentDate == addTime(parseDate(startDate), frequency, k)
    IN  [currentRate |-> currentRate,
         installmentAmount |-> installmentAmount,
         remainingCapital |-> ClampBalance(Sub(st.remainingCapital, capitalPayment)),
         installments |-> Append(st.installments,
                                 NewInstallment(k, toISODate(currentDate), installmentAmount,
                                                capitalPayment, interestPayment))]

\* one pass of the French loop for installment k: the loop variables after it
\* and the installment it pushes
FrenchStep(k, st, frequency, duration, startDate, variableRates) ==
    LET rateChanged == HasRate(variableRates, k)
        currentRate == IF rateChanged THEN variableRates[k] ELSE st.currentRate
        pmt == IF k = 1 \/ rateChanged
               THEN Pmt(st.remainingCapital, currentRate, duration, k)
               ELSE st.installmentAmount
        i == Div(currentRate, Whole(100))
        interestPayment == Mul(st.remainingCapital, i)
        capitalPayment == IF k = duration THEN st.remainingCapital
                          ELSE Sub(pmt, interestPayment)
        installmentAmount == IF k = duration THEN Add(capitalPayment, interestPayment)
                             ELSE pmt
        currentDate == addTime(parseDate(startDate), frequency, k)
    IN  [currentRate |-> currentRate,
         installmentAmount |-> installmentAmount,
         remainingCapital |-> ClampBalance(Sub(st.remainingCapital, capitalPayment)),
         installments |-> Append(st.installments,
                                 NewInstallment(k, toISODate(currentDate), installmentAmount,
                                                capitalPayment, interestPayment))]

\* the French loop run for installments k, k + 1, ..., last
RECURSIVE FrenchLoop(_, _, _, _, _, _, _)
FrenchLoop(k, last, st, frequency, duration, startDate, variableRates) ==
    IF k > last THEN st
    ELSE FrenchLoop(k + 1, last,
                    FrenchStep(k, st, frequency, duration, startDate, variableRates),
                    frequency, duration, startDate, variableRates)

\* the loop variables of the French branch after the pass for installment `last`
\* (last = 0: as initialised before the loop)
FrenchRun(amount, initialRateOrAmount, frequency, duration, startDate, variableRates, last) ==
    FrenchLoop(1, last,
               [currentRate |-> initialRateOrAmount, installmentAmount |-> Zero,
                remainingCapital |-> amount, installments |-> <<>>],
               frequency, duration, startDate, variableRates)

\* calculateSchedule without the fallback: French with a fixed amount runs the
\* French loop, the amount read as a percentage
calculateSchedule_noFallback(amount, initialRateOrAmount, interestType, frequency, duration, loanType, startDate, variableRates) ==
    IF loanType = SIMPLE
    THEN SimpleLoop(1, initialRateOrAmount, <<>>, amount, interestType, frequency, duration,
                    startDate, variableRates)
    ELSE IF loanType = FRENCH
    THEN FrenchRun(amount, initialRateOrAmount, frequency, duration, startDate,
                   variableRates, duration).installments
    ELSE <<>>

\* calculateSchedule
RECURSIVE calculateSchedule(_, _, _, _, _, _, _, _)
calculateSchedule(amount, initialRateOrAmount, interestType, frequency, duration, loanType, startDate, variableRates) ==
    IF loanType = SIMPLE
    THEN SimpleLoop(1, initialRateOrAmount, <<>>, amount, interestType, frequency, duration,
                    startDate, variableRates)
    ELSE IF loanType = FRENCH
    THEN IF interestType = FIXED_AMOUNT
         THEN calculateSchedule(amount, initialRateOrAmount, interestType, frequency,
                                duration, SIMPLE, startDate, variableRates)
         ELSE FrenchRun(amount, initialRateOrAmount, frequency, duration, startDate,
                        variableRates, duration).installments
    ELSE <<>>

(***************************************************************************)
(* getInstallmentStatus                                                    *)
(***************************************************************************)
\* an instant in local time is a number of minutes; a Date at midnight is
\* MinutesPerDay times its day number
MinutesPerDay == 1440

\* new Date() at the given local date and minute of the day
Instant(clock) == parseDate(clock.date) * MinutesPerDay + clock.minute

\* date.setHours(0,0,0,0): the day number of the local day the instant is in
setHoursZero(instant) == instant \div MinutesPerDay

\* Late from the due date itself
getInstallmentStatus_lateOnDueDate(inst, now) ==
    IF inst.status = PAID THEN PAID
    ELSE IF setHoursZero(now) >= parseDate(inst.dueDate) THEN LATE ELSE PENDING

\* getInstallmentStatus, with the instant new Date() returns as an argument
getInstallmentStatus(inst, now) ==
    IF inst.status = PAID THEN PAID
    ELSE LET today == setHoursZero(now)
             due == parseDate(inst.dueDate)
         IN  IF today > due THEN LATE ELSE PENDING

(***************************************************************************)
(* State                                                                   *)
(***************************************************************************)
VARIABLES
    loansCache,   \* the module variable loansCache: Absent (null) or the Loan[] in memory
    lsLoans,      \* localStorage item 'lenderpro_loans': Absent or the Loan[] its JSON text holds
    op,           \* the last call made: its name, loan id, installment number, and
                  \* whether a payment found its installment, or an edit its loan,
                  \* 'Pagado' already
    ret,          \* what the last payInstallment returned: null or the Loan (by its id)
    everPaid,     \* history: the <<loan id, installment number>> pairs seen Paid so far
    schedIn,      \* the arguments of a call of calculateSchedule
    schedOut,     \* the Installment[] it returned, Absent before the call
    calIn,        \* [start, frequency, n]: a start date, a frequency, a period count
    calEnd,       \* toISODate(addTime(parseDate(start), frequency, n)), '' before
    calDur,       \* calculateDurationFromDates(start, calEnd, frequency), 0 before
    chainStart,   \* the date string a chain of one-month steps starts from
    chainDate,    \* the Date after chainSteps calls of addTime(., MONTHLY, 1)
    chainSteps,
    viewInst,     \* the Installment a row of the schedule table shows, Absent when none
    viewNow,      \* the local date and minute of the day at which the row is rendered
    viewStatus,   \* what getInstallmentStatus returned for the row, undefined before
    clientsCache, \* the module variable clientsCache: Absent (null) or the Client[] in memory
    lsClients,    \* localStorage item 'lenderpro_clients': Absent or the Client[] it holds
    lastWrite     \* history: per id, the object last passed to a save or update call

schedVars == <<schedIn, schedOut>>
calVars == <<calIn, calEnd, calDur>>
chainVars == <<chainStart, chainDate, chainSteps>>
storeVars == <<loansCache, lsLoans, op, ret>>
viewVars == <<viewInst, viewNow, viewStatus>>
clientVars == <<clientsCache, lsClients, lastWrite>>
vars == <<storeVars, everPaid, schedVars, calVars, chainVars, viewVars, clientVars>>

DateStr(y, m, d) == [y |-> y, m |-> m, d |-> d]

(***************************************************************************)
(* calculateSchedule as a pure function: SpecSched                         *)
(***************************************************************************)
\* the longest schedule generated
MaxDuration == 3

SchedAmounts == {<<1, 100>>, Whole(1000), Whole(1200)}
SchedRates == {Whole(0), Whole(10), Whole(500)}
OverrideRates == {Whole(0), Whole(100)}
SchedFrequencies == {MONTHLY, BIWEEKLY}
SchedStartDates == {DateStr(2024, 1, 31)}

\* the override maps for a schedule of the given length
RateMaps(duration) ==
    UNION {[keys -> OverrideRates] : keys \in SUBSET (1..duration)}

\* the variables of the parts a specification leaves at rest
EmptyDate == DateStr(0, 0, 0)
NoCalIn == [start |-> EmptyDate, frequency |-> DAILY, n |-> 0]
NoOp == [name |-> "none", id |-> null, num |-> 0, wasPaid |-> FALSE]
NoClock == [date |-> EmptyDate, minute |-> 0]
NoWrites == [clients |-> <<>>, loans |-> <<>>]

InitSched ==
    /\ \E n \in 1..MaxDuration, a \in SchedAmounts, r \in SchedRates, it \in InterestType,
          f \in SchedFrequencies, lt \in LoanType, sd \in SchedStartDates :
         \E vr \in RateMaps(n) :
            schedIn = [amount |-> a, rate |-> r, interestType |-> it, frequency |-> f,
                       duration |-> n, loanType |-> lt, startDate |-> sd,
                       variableRates |-> vr]
    /\ schedOut = Absent
    /\ calIn = NoCalIn /\ calEnd = EmptyDate /\ calDur = 0
    /\ chainStart = EmptyDate /\ chainDate = 0 /\ chainSteps = 0
    /\ viewInst = Absent /\ viewNow = NoClock /\ viewStatus = undefined
    /\ loansCache = Absent /\ lsLoans = Absent /\ op = NoOp /\ ret = null /\ everPaid = {}
    /\ clientsCache = Absent /\ lsClients = Absent /\ lastWrite = NoWrites

\* the call of calculateSchedule on the chosen arguments
Generate ==
    /\ IsAbsent(schedOut)
    /\ schedOut' = Present(calculateSchedule(schedIn.amount, schedIn.rate,
                                             schedIn.interestType, schedIn.frequency,
                                             schedIn.duration, schedIn.loanType,
                                             schedIn.startDate, schedIn.variableRates))
    /\ UNCHANGED <<schedIn, calVars, chainVars, storeVars, everPaid, viewVars, clientVars>>

(***************************************************************************)
(* The calendar helpers as pure functions: SpecCal, SpecChain              *)
(***************************************************************************)
\* the largest period count of a round trip
MaxPeriods == 36
\* the longest chain of one-month steps
MaxChain == 24

CalYears == {2023, 2024}
CalDays == {1, 15, 28, 29, 30, 31}

\* the number of days of month m of year y
DaysInMonth(y, m) ==
    IF m = 2 THEN (IF y % 4 = 0 /\ (y % 100 # 0 \/ y % 400 = 0) THEN 29 ELSE 28)
    ELSE IF m \in {4, 6, 9, 11} THEN 30 ELSE 31

\* the date strings a date input can hold
CalStartDates ==
    {DateStr(y, m, d) : y \in CalYears, m \in 1..12, d \in CalDays} \cap
    {DateStr(y, m, d) : y \in CalYears, m \in 1..12, d \in 1..31}

\* the valid dates among them
ValidStartDates == {x \in CalStartDates : x.d <= DaysInMonth(x.y, x.m)}

InitCal ==
    /\ \E s \in ValidStartDates, f \in Frequency, n \in 1..MaxPeriods :
         calIn = [start |-> s, frequency |-> f, n |-> n]
    /\ calEnd = EmptyDate
    /\ calDur = 0
    /\ schedIn = null /\ schedOut = Absent
    /\ chainStart = EmptyDate /\ chainDate = 0 /\ chainSteps = 0
    /\ viewInst = Absent /\ viewNow = NoClock /\ viewStatus = undefined
    /\ loansCache = Absent /\ lsLoans = Absent /\ op = NoOp /\ ret = null /\ everPaid = {}
    /\ clientsCache = Absent /\ lsClients = Absent /\ lastWrite = NoWrites

\* the end date shown for a start date, a frequency and a duration
Advance ==
    /\ calEnd = EmptyDate
    /\ calEnd' = toISODate(addTime(parseDate(calIn.start), calIn.frequency, calIn.n))
    /\ UNCHANGED <<calIn, calDur, schedVars, chainVars, storeVars, everPaid, viewVars, clientVars>>

\* the duration recomputed from the start and end dates
CountBack ==
    /\ calEnd # EmptyDate
    /\ calDur = 0
    /\ calDur' = calculateDurationFromDates(calIn.start, calEnd, calIn.frequency)
    /\ UNCHANGED <<calIn, calEnd, schedVars, chainVars, storeVars, everPaid, viewVars, clientVars>>

InitChain ==
    /\ chainStart \in ValidStartDates
    /\ chainDate = parseDate(chainStart)
    /\ chainSteps = 0
    /\ viewInst = Absent /\ viewNow = NoClock /\ viewStatus = undefined
    /\ schedIn = null /\ schedOut = Absent
    /\ calIn = NoCalIn /\ calEnd = EmptyDate /\ calDur = 0
    /\ loansCache = Absent /\ lsLoans = Absent /\ op = NoOp /\ ret = null /\ everPaid = {}
    /\ clientsCache = Absent /\ lsClients = Absent /\ lastWrite = NoWrites

\* one more call of addTime(., MONTHLY, 1) on the date reached so far
ChainStep ==
    /\ chainSteps < MaxChain
    /\ chainDate' = addTime(chainDate, MONTHLY, 1)
    /\ chainSteps' = chainSteps + 1
    /\ UNCHANGED <<chainStart, schedVars, calVars, storeVars, everPaid, viewVars, clientVars>>

NextSched == Generate
NextCal == Advance \/ CountBack
NextChain == ChainStep

SpecSched == InitSched /\ [][NextSched]_vars
SpecCal == InitCal /\ [][NextCal]_vars
SpecChain == InitChain /\ [][NextChain]_vars

\* the dates the two date inputs of the loan form can hold when the duration is
\* counted: end dates before, on and after the start date, within the first
\* period, and further away than the loop of calculateDurationFromDates counts
DurStartDates ==
    {DateStr(2024, 1, 1), DateStr(2024, 1, 15), DateStr(2024, 1, 31), DateStr(2024, 2, 29)}
DurEndDates ==
    {DateStr(2023, 12, 31), DateStr(2024, 1, 1), DateStr(2024, 1, 2), DateStr(2024, 1, 20),
     DateStr(2024, 2, 29), DateStr(2024, 3, 15), DateStr(2027, 6, 1), DateStr(2030, 1, 1),
     DateStr(2130, 1, 1)}

InitDur ==
    /\ \E s \in DurStartDates, f \in Frequency : calIn = [start |-> s, frequency |-> f, n |-> 0]
    /\ calEnd \in DurEndDates
    /\ calDur = 0
    /\ schedIn = null /\ schedOut = Absent
    /\ chainStart = EmptyDate /\ chainDate = 0 /\ chainSteps = 0
    /\ viewInst = Absent /\ viewNow = NoClock /\ viewStatus = undefined
    /\ loansCache = Absent /\ lsLoans = Absent /\ op = NoOp /\ ret = null /\ everPaid = {}
    /\ clientsCache = Absent /\ lsClients = Absent /\ lastWrite = NoWrites

\* calculateDurationFromDates applied to the two dates; op records that it returned
CountPeriods ==
    /\ op.name = "none"
    /\ calDur' = calculateDurationFromDates(calIn.start, calEnd, calIn.frequency)
    /\ op' = [name |-> "duration", id |-> null, num |-> 0, wasPaid |-> FALSE]
    /\ UNCHANGED <<calIn, calEnd, schedVars, chainVars, loansCache, lsLoans, ret, everPaid, viewVars, clientVars>>

NextDur == CountPeriods
SpecDur == InitDur /\ [][NextDur]_vars

(***************************************************************************)
(* calculateSchedule on the durations the number input lets through:       *)
(* SpecSchedAny                                                            *)
(***************************************************************************)
\* Number(e.target.value) of the duration input while it is being typed in:
\* its min="1" is enforced when the form is submitted, not on change
TypedDurations == {-1, 0, 1}

InitSchedAny ==
    /\ \E n \in TypedDurations, a \in SchedAmounts, r \in SchedRates, it \in InterestType,
          f \in SchedFrequencies, lt \in LoanType, sd \in SchedStartDates :
         \E vr \in RateMaps(1) :
            schedIn = [amount |-> a, rate |-> r, interestType |-> it, frequency |-> f,
                       duration |-> n, loanType |-> lt, startDate |-> sd,
                       variableRates |-> vr]
    /\ schedOut = Absent
    /\ calIn = NoCalIn /\ calEnd = EmptyDate /\ calDur = 0
    /\ chainStart = EmptyDate /\ chainDate = 0 /\ chainSteps = 0
    /\ viewInst = Absent /\ viewNow = NoClock /\ viewStatus = undefined
    /\ loansCache = Absent /\ lsLoans = Absent /\ op = NoOp /\ ret = null /\ everPaid = {}
    /\ clientsCache = Absent /\ lsClients = Absent /\ lastWrite = NoWrites

SpecSchedAny == InitSchedAny /\ [][NextSched]_vars

\* the longest schedule generated from an arbitrary start date
MaxDatedDuration == 6

\* calculateSchedule on every frequency and every start date of the date input
InitDated ==
    /\ \E n \in 1..MaxDatedDuration, f \in Frequency, lt \in LoanType, sd \in ValidStartDates :
         schedIn = [amount |-> Whole(1200), rate |-> Whole(0), interestType |-> PERCENTAGE,
                    frequency |-> f, duration |-> n, loanType |-> lt, startDate |-> sd,
                    variableRates |-> <<>>]
    /\ schedOut = Absent
    /\ calIn = NoCalIn /\ calEnd = EmptyDate /\ calDur = 0
    /\ chainStart = EmptyDate /\ chainDate = 0 /\ chainSteps = 0
    /\ viewInst = Absent /\ viewNow = NoClock /\ viewStatus = undefined
    /\ loansCache = Absent /\ lsLoans = Absent /\ op = NoOp /\ ret = null /\ everPaid = {}
    /\ clientsCache = Absent /\ lsClients = Absent /\ lastWrite = NoWrites

SpecDated == InitDated /\ [][NextSched]_vars

(***************************************************************************)
(* getInstallmentStatus on the rows of the schedule table: SpecView        *)
(***************************************************************************)
ViewDueDates == {DateStr(2024, 2, 29), DateStr(2024, 3, 1), DateStr(2024, 12, 31)}
ViewClockDates ==
    {DateStr(2024, 2, 28), DateStr(2024, 2, 29), DateStr(2024, 3, 1), DateStr(2024, 3, 2),
     DateStr(2024, 12, 31), DateStr(2025, 1, 1)}
ViewMinutes == {0, 1, 720, MinutesPerDay - 1}

\* an installment of a stored loan: Pending as generated, Paid with its payment
\* date, or Late as an imported backup can hold it
ViewInstallments ==
    [number : {1}, dueDate : ViewDueDates, amount : {Whole(550)}, capital : {Whole(500)},
     interest : {Whole(50)}, status : {PENDING, LATE}, paymentDate : {undefined}]
    \cup
    [number : {1}, dueDate : ViewDueDates, amount : {Whole(550)}, capital : {Whole(500)},
     interest : {Whole(50)}, status : {PAID}, paymentDate : {"2024-03-01T10:00:00.000Z"}]

InitView ==
    /\ \E inst \in ViewInstallments : viewInst = Present(inst)
    /\ viewNow \in [date : ViewClockDates, minute : ViewMinutes]
    /\ viewStatus = undefined
    /\ schedIn = null /\ schedOut = Absent
    /\ calIn = NoCalIn /\ calEnd = EmptyDate /\ calDur = 0
    /\ chainStart = EmptyDate /\ chainDate = 0 /\ chainSteps = 0
    /\ loansCache = Absent /\ lsLoans = Absent /\ op = NoOp /\ ret = null /\ everPaid = {}
    /\ clientsCache = Absent /\ lsClients = Absent /\ lastWrite = NoWrites

\* the row is rendered: const realStatus = getInstallmentStatus(inst)
RenderRow ==
    /\ viewStatus = undefined
    /\ viewStatus' = getInstallmentStatus(The(viewInst), Instant(viewNow))
    /\ UNCHANGED <<viewInst, viewNow, schedVars, calVars, chainVars, storeVars, everPaid, clientVars>>

NextView == RenderRow
SpecView == InitView /\ [][NextView]_vars

(***************************************************************************)
(* StorageService (services/storage.ts)                                    *)
(*                                                                         *)
(* localStorage holds JSON text.  The model holds the value the text       *)
(* denotes: every value the program stores is a finite number, a string,   *)
(* an array or an object of these, and a field that is undefined or        *)
(* missing reads as undefined in both.                                     *)
(***************************************************************************)
\* Number(x) || fallback, for a number x
NumberOr(x, fallback) == IF x = Zero THEN fallback ELSE x

\* the object getLoans builds from a stored record
SanitizeLoan(l) ==
    [l EXCEPT !.amount = NumberOr(l.amount, Zero),
              !.interestRate = NumberOr(l.interestRate, Zero),
              !.duration = IF l.duration = 0 THEN 1 ELSE l.duration,
              !.totalPayable = NumberOr(l.totalPayable, Zero),
              !.totalPaid = NumberOr(l.totalPaid, Zero),
              !.status = IF l.status = "" THEN ACTIVE ELSE l.status]

\* getLoans: the list returned, which is also the cache afterwards
getLoans ==
    IF ~IsAbsent(loansCache) THEN The(loansCache)
    ELSE IF IsAbsent(lsLoans) THEN <<>>
    ELSE [i \in 1..Len(The(lsLoans)) |-> SanitizeLoan(The(lsLoans)[i])]

\* loans.findIndex(l => l.id === id), 1-based; 0 for the -1 of no match
FindLoanIndex(loans, id) ==
    IF \E i \in 1..Len(loans) : loans[i].id = id
    THEN CHOOSE i \in 1..Len(loans) :
            /\ loans[i].id = id
            /\ \A j \in 1..(i - 1) : loans[j].id # id
    ELSE 0

\* a findIndex that falls back on the last installment when none matches
FindInstallmentIndex_clampsToLast(installments, installmentNumber) ==
    IF \E i \in 1..Len(installments) : installments[i].number = installmentNumber
    THEN CHOOSE i \in 1..Len(installments) : installments[i].number = installmentNumber
    ELSE Len(installments)

\* installments.findIndex(i => i.number === installmentNumber), 1-based; 0 for -1
FindInstallmentIndex(installments, installmentNumber) ==
    IF \E i \in 1..Len(installments) : installments[i].number = installmentNumber
    THEN CHOOSE i \in 1..Len(installments) :
            /\ installments[i].number = installmentNumber
            /\ \A j \in 1..(i - 1) : installments[j].number # installmentNumber
    ELSE 0

\* a total that counts every installment, Paid or not
RECURSIVE PaidAmount_countsAll(_)
PaidAmount_countsAll(installments) ==
    IF installments = <<>> THEN Zero
    ELSE Add(PaidAmount_countsAll(SubSeq(installments, 1, Len(installments) - 1)),
             installments[Len(installments)].amount)

\* installments.filter(i => i.status === 'Pagado').reduce((acc, curr) => acc + curr.amount, 0)
RECURSIVE PaidAmount(_)
PaidAmount(installments) ==
    IF installments = <<>> THEN Zero
    ELSE LET init == SubSeq(installments, 1, Len(installments) - 1)
             curr == installments[Len(installments)]
         IN  IF curr.status = PAID THEN Add(PaidAmount(init), curr.amount)
             ELSE PaidAmount(init)

\* a test that is satisfied by one Paid installment
AllPaid_somePaid(installments) == \E i \in 1..Len(installments) : installments[i].status = PAID

\* installments.every(i => i.status === 'Pagado')
AllPaid(installments) == \A i \in 1..Len(installments) : installments[i].status = PAID

\* a payment that leaves the loan status as it finds it
StatusAfterPayment_neverCompletes(status, installments) == status

\* a status update that puts every loan still owing back to Active
StatusAfterPayment_resetsToActive(status, installments) ==
    IF AllPaid(installments) THEN COMPLETED ELSE ACTIVE

\* "Check if loan is completed": the loan status payInstallment leaves
StatusAfterPayment(status, installments) ==
    IF AllPaid(installments) THEN COMPLETED ELSE status

\* a payment that settles every installment up to the one asked for
PayLoan_payThrough(loan, installmentIndex, now) ==
    LET installments == [j \in 1..Len(loan.installments) |->
                            IF j <= installmentIndex
                            THEN [loan.installments[j] EXCEPT !.status = PAID,
                                                              !.paymentDate = now]
                            ELSE loan.installments[j]]
    IN  [loan EXCEPT !.installments = installments,
                     !.totalPaid = PaidAmount(installments),
                     !.status = StatusAfterPayment(loan.status, installments)]

\* a payment that takes the amount paid off totalPayable
PayLoan_reducesPayable(loan, installmentIndex, now) ==
    LET installments == [loan.installments EXCEPT ![installmentIndex].status = PAID,
                                                  ![installmentIndex].paymentDate = now]
    IN  [loan EXCEPT !.installments = installments,
                     !.totalPaid = PaidAmount(installments),
                     !.totalPayable = Sub(loan.totalPayable, installments[installmentIndex].amount),
                     !.status = StatusAfterPayment(loan.status, installments)]

\* a payment that adds the amount to totalPaid instead of summing anew
PayLoan_addsAmount(loan, installmentIndex, now) ==
    LET installments == [loan.installments EXCEPT ![installmentIndex].status = PAID,
                                                  ![installmentIndex].paymentDate = now]
    IN  [loan EXCEPT !.installments = installments,
                     !.totalPaid = Add(loan.totalPaid, installments[installmentIndex].amount),
                     !.status = StatusAfterPayment(loan.status, installments)]

\* the loan as payInstallment leaves it once the installment is found
PayLoan(loan, installmentIndex, now) ==
    LET installments == [loan.installments EXCEPT ![installmentIndex].status = PAID,
                                                  ![installmentIndex].paymentDate = now]
    IN  [loan EXCEPT !.installments = installments,
                     !.totalPaid = PaidAmount(installments),
                     !.status = StatusAfterPayment(loan.status, installments)]

\* the list saveLoan stores: the loan replaces the record of its id or is pushed
SaveInto(loans, loan) ==
    LET index == FindLoanIndex(loans, loan.id)
    IN  IF index > 0 THEN [loans EXCEPT ![index] = loan] ELSE Append(loans, loan)

\* saveLoan
saveLoan(loan) ==
    LET loans == SaveInto(getLoans, loan)
    IN  /\ loansCache' = Present(loans)
        /\ lsLoans' = Present(loans)

\* updateLoan
updateLoan(loan) ==
    LET loans == getLoans
        index == FindLoanIndex(loans, loan.id)
    IN  IF index > 0
        THEN /\ loansCache' = Present([loans EXCEPT ![index] = loan])
             /\ lsLoans' = Present([loans EXCEPT ![index] = loan])
        ELSE /\ loansCache' = Present(loans)
             /\ UNCHANGED lsLoans

\* the installment payInstallment finds is Paid already when the call is made
WasPaid(loans, loanId, installmentNumber) ==
    LET loanIndex == FindLoanIndex(loans, loanId)
        installmentIndex ==
            IF loanIndex = 0 THEN 0
            ELSE FindInstallmentIndex(loans[loanIndex].installments, installmentNumber)
    IN  /\ loanIndex > 0
        /\ installmentIndex > 0
        /\ loans[loanIndex].installments[installmentIndex].status = PAID

\* payInstallment finds the loan and the installment
WasFound(loans, loanId, installmentNumber) ==
    /\ FindLoanIndex(loans, loanId) > 0
    /\ FindInstallmentIndex(loans[FindLoanIndex(loans, loanId)].installments,
                            installmentNumber) > 0

\* payInstallment, called at the time `now`
payInstallment(loanId, installmentNumber, now) ==
    LET loans == getLoans
        loanIndex == FindLoanIndex(loans, loanId)
        installmentIndex ==
            IF loanIndex = 0 THEN 0
            ELSE FindInstallmentIndex(loans[loanIndex].installments, installmentNumber)
    IN  IF loanIndex = 0 \/ installmentIndex = 0
        THEN /\ loansCache' = Present(loans)
             /\ ret' = null
             /\ UNCHANGED lsLoans
        ELSE LET loan == PayLoan(loans[loanIndex], installmentIndex, now)
             IN  /\ loansCache' = Present([loans EXCEPT ![loanIndex] = loan])
                 /\ lsLoans' = Present([loans EXCEPT ![loanIndex] = loan])
                 /\ ret' = loan.id

\* the object getClients builds from a stored record whose id and createdAt
\* are not empty
SanitizeClient(c) ==
    [id |-> c.id, name |-> IF c.name = "" THEN "Sin Nombre" ELSE c.name, dni |-> c.dni,
     phone |-> c.phone, address |-> c.address, createdAt |-> c.createdAt]

\* getClients: the list returned, which is also the cache afterwards
getClients ==
    IF ~IsAbsent(clientsCache) THEN The(clientsCache)
    ELSE IF IsAbsent(lsClients) THEN <<>>
    ELSE [i \in 1..Len(The(lsClients)) |-> SanitizeClient(The(lsClients)[i])]

\* clients.findIndex(c => c.id === id), 1-based; 0 for the -1 of no match
FindClientIndex(clients, id) ==
    IF \E i \in 1..Len(clients) : clients[i].id = id
    THEN CHOOSE i \in 1..Len(clients) :
            /\ clients[i].id = id
            /\ \A j \in 1..(i - 1) : clients[j].id # id
    ELSE 0

\* a save that pushes the client whether or not its id is stored already
SaveClientInto_alwaysPushes(clients, client) == Append(clients, client)

\* the list saveClient stores: the client replaces the record of its id or is pushed
SaveClientInto(clients, client) ==
    LET index == FindClientIndex(clients, client.id)
    IN  IF index > 0 THEN [clients EXCEPT ![index] = client] ELSE Append(clients, client)

\* saveClient
saveClient(client) ==
    LET clients == SaveClientInto(getClients, client)
    IN  /\ clientsCache' = Present(clients)
        /\ lsClients' = Present(clients)

\* a sanitisation that does not carry the payment date over
SanitizeImportedInstallment_dropsPaymentDate(i) ==
    [i EXCEPT !.amount = NumberOr(i.amount, Zero),
              !.capital = NumberOr(i.capital, Zero),
              !.interest = NumberOr(i.interest, Zero),
              !.status = IF i.status = "" THEN PENDING ELSE i.status,
              !.paymentDate = undefined]

\* one installment as importData sanitises it
SanitizeImportedInstallment(i) ==
    [i EXCEPT !.amount = NumberOr(i.amount, Zero),
              !.capital = NumberOr(i.capital, Zero),
              !.interest = NumberOr(i.interest, Zero),
              !.status = IF i.status = "" THEN PENDING ELSE i.status]

\* one loan as importData sanitises it
SanitizeImported(l) ==
    [l EXCEPT !.amount = NumberOr(l.amount, Zero),
              !.interestRate = NumberOr(l.interestRate, Zero),
              !.interestType = IF l.interestType = "" THEN PERCENTAGE ELSE l.interestType,
              !.frequency = IF l.frequency = "" THEN MONTHLY ELSE l.frequency,
              !.duration = IF l.duration = 0 THEN 1 ELSE l.duration,
              !.type = IF l.type = "" THEN SIMPLE ELSE l.type,
              !.installments = [j \in 1..Len(l.installments) |->
                                   SanitizeImportedInstallment(l.installments[j])],
              !.status = IF l.status = "" THEN ACTIVE ELSE l.status,
              !.totalPayable = NumberOr(l.totalPayable, Zero),
              !.totalPaid = NumberOr(l.totalPaid, Zero)]

\* one client as importData sanitises it, its id and createdAt not empty
SanitizeImportedClient(c) ==
    [id |-> c.id, name |-> IF c.name = "" THEN "Sin Nombre Recuperado" ELSE c.name,
     dni |-> c.dni, phone |-> c.phone, address |-> c.address, createdAt |-> c.createdAt]

\* the storage keys, and the mark of a call in which no setItem throws
CLIENTS_KEY == "lenderpro_clients"
LOANS_KEY == "lenderpro_loans"
NoQuotaError == "none"

\* what importData is given: nothing, text that is not JSON, JSON that is not an
\* object, or a backup object with its clients and loans
NoInput == [kind |-> "empty", clients |-> <<>>, loans |-> <<>>]
CorruptInput == [kind |-> "corrupt", clients |-> <<>>, loans |-> <<>>]
ScalarInput == [kind |-> "scalar", clients |-> <<>>, loans |-> <<>>]
BackupInput(clients, loans) == [kind |-> "backup", clients |-> clients, loans |-> loans]

\* importData; failsAt is the key whose localStorage.setItem throws
\* (QuotaExceededError or any other), NoQuotaError when none does
importData(jsonInput, failsAt) ==
    LET sanitizedClients ==
            [i \in 1..Len(jsonInput.clients) |-> SanitizeImportedClient(jsonInput.clients[i])]
        sanitizedLoans ==
            [i \in 1..Len(jsonInput.loans) |-> SanitizeImported(jsonInput.loans[i])]
    IN  IF \/ jsonInput.kind # "backup"
           \/ Len(jsonInput.clients) = 0 /\ Len(jsonInput.loans) = 0
           \/ failsAt = CLIENTS_KEY
        THEN /\ ret' = "failure"
             /\ UNCHANGED <<lsClients, lsLoans, clientsCache, loansCache>>
        ELSE IF failsAt = LOANS_KEY
        THEN /\ lsClients' = Present(sanitizedClients)
             /\ ret' = "failure"
             /\ UNCHANGED <<lsLoans, clientsCache, loansCache>>
        ELSE /\ lsClients' = Present(sanitizedClients)
             /\ lsLoans' = Present(sanitizedLoans)
             /\ clientsCache' = Present(sanitizedClients)
             /\ loansCache' = Present(sanitizedLoans)
             /\ ret' = "success"

\* exportData: the backup object whose JSON text it returns; both lists are
\* read through getClients and getLoans, which fill the caches
exportData == BackupInput(getClients, getLoans)

\* clearData
clearData ==
    /\ lsClients' = Absent
    /\ lsLoans' = Absent
    /\ clientsCache' = Absent
    /\ loansCache' = Absent

(***************************************************************************)
(* The Loans page (pages/Loans.tsx)                                        *)
(***************************************************************************)
\* schedule.reduce((acc, curr) => acc + curr.amount, 0)
RECURSIVE TotalPayable(_)
TotalPayable(schedule) ==
    IF schedule = <<>> THEN Zero
    ELSE Add(TotalPayable(SubSeq(schedule, 1, Len(schedule) - 1)),
             schedule[Len(schedule)].amount)

\* schedule.reduce((acc, curr) => curr.status === PAID ? acc + curr.amount : acc, 0)
RECURSIVE TotalPaid(_)
TotalPaid(schedule) ==
    IF schedule = <<>> THEN Zero
    ELSE LET acc == TotalPaid(SubSeq(schedule, 1, Len(schedule) - 1))
             curr == schedule[Len(schedule)]
         IN  IF curr.status = PAID THEN Add(acc, curr.amount) ELSE acc

\* a carry-forward that keeps the whole old installment, its old amounts included
CarryPaid_keepsOldAmounts(newInst, oldInstallments) ==
    LET oldIndex == FindInstallmentIndex(oldInstallments, newInst.number)
    IN  IF oldIndex > 0 /\ oldInstallments[oldIndex].status = PAID
        THEN oldInstallments[oldIndex]
        ELSE newInst

\* one pass of schedule.forEach in handleSaveLoan: the new installment after it
CarryPaid(newInst, oldInstallments) ==
    LET oldIndex == FindInstallmentIndex(oldInstallments, newInst.number)
    IN  IF oldIndex > 0 /\ oldInstallments[oldIndex].status = PAID
        THEN [newInst EXCEPT !.status = PAID,
                             !.paymentDate = oldInstallments[oldIndex].paymentDate]
        ELSE newInst

\* schedule.forEach(...) of handleSaveLoan: when a loan is edited, the installments
\* that are Paid in the loan shown are carried to the new schedule by number;
\* selectedLoan is the loan shown in the detail view, Absent when there is none
CarryForward(schedule, isEditing, selectedLoan) ==
    IF isEditing /\ ~IsAbsent(selectedLoan)
    THEN [i \in 1..Len(schedule) |->
            CarryPaid(schedule[i], The(selectedLoan).installments)]
    ELSE schedule

\* the object literal loanPayload of handleSaveLoan, schedule being final
Payload(formData, isEditing, uuid, schedule) ==
    [id |-> IF isEditing THEN formData.id ELSE uuid,
     clientId |-> formData.clientId,
     amount |-> formData.amount,
     interestRate |-> formData.interestRate,
     interestType |-> formData.interestType,
     frequency |-> formData.frequency,
     duration |-> formData.duration,
     type |-> formData.type,
     startDate |-> formData.startDate,
     endDate |-> IF Len(schedule) > 0 THEN schedule[Len(schedule)].dueDate
                 ELSE formData.endDate,
     installments |-> schedule,
     status |-> IF AllPaid(schedule) THEN COMPLETED ELSE ACTIVE,
     totalPayable |-> TotalPayable(schedule),
     totalPaid |-> TotalPaid(schedule)]

\* the loanPayload handleSaveLoan builds from the form
LoanPayload(formData, isEditing, selectedLoan, uuid) ==
    Payload(formData, isEditing, uuid,
            CarryForward(calculateSchedule(formData.amount, formData.interestRate,
                                           formData.interestType, formData.frequency,
                                           formData.duration, formData.type,
                                           formData.startDate, NoRates),
                         isEditing, selectedLoan))

(***************************************************************************)
(* The ledger as a state machine: Spec, SpecHist, SpecImported             *)
(***************************************************************************)
\* the most loans the store holds
MaxLoans == 1
\* the longest schedule a form asks for
MaxFormDuration == 3

\* what the loan form can hold when it is submitted
FormAmounts == {Whole(1000), Whole(1200)}
FormRates == {Whole(10)}
FormInterestTypes == {PERCENTAGE}
FormFrequencies == {MONTHLY}
FormStartDates == {DateStr(2024, 1, 31)}
Forms ==
    [id : {""}, clientId : {"client-1"}, amount : FormAmounts, interestRate : FormRates,
     interestType : FormInterestTypes, frequency : FormFrequencies,
     duration : 1..MaxFormDuration, type : LoanType, startDate : FormStartDates,
     endDate : {EmptyDate}]

\* the values new Date().toISOString() takes when payments are recorded
Timestamps == {"2024-03-01T10:00:00.000Z", "2024-04-01T10:00:00.000Z"}

\* generateUUID(): an id no stored loan has
Uuid(loans) == "loan-" \o ToString(Len(loans) + 1)

\* the arguments payInstallment is called with
PayIds == {"loan-" \o ToString(i) : i \in 1..MaxLoans} \cup {"no-such-loan"}
PayNumbers == 1..(MaxFormDuration + 1)

\* the Loans page mounts: useEffect reads the loans
LoadLoans ==
    /\ IsAbsent(loansCache)
    /\ loansCache' = Present(getLoans)
    /\ clientsCache' = Present(getClients)
    /\ op' = [name |-> "getLoans", id |-> null, num |-> 0, wasPaid |-> FALSE]
    /\ ret' = null
    /\ UNCHANGED <<lsLoans, lsClients>>

\* handleSaveLoan submitted from the create form
CreateLoan ==
    \E formData \in Forms :
        /\ Len(getLoans) < MaxLoans
        /\ saveLoan(LoanPayload(formData, FALSE, Absent, Uuid(getLoans)))
        /\ op' = [name |-> "create", id |-> Uuid(getLoans), num |-> 0, wasPaid |-> FALSE]
        /\ ret' = null
        /\ UNCHANGED <<clientsCache, lsClients>>

\* a loan card is clicked (setSelectedLoan), the edit button fills the form
\* (handleEditInit), the form is changed and submitted (handleSaveLoan)
EditLoan ==
    \E i \in 1..Len(getLoans), changed \in Forms :
        LET selectedLoan == getLoans[i]
            formData == [changed EXCEPT !.id = selectedLoan.id]
        IN  /\ updateLoan(LoanPayload(formData, TRUE, Present(selectedLoan), ""))
            /\ op' = [name |-> "edit", id |-> selectedLoan.id, num |-> 0,
                      wasPaid |-> (selectedLoan.status = COMPLETED)]
            /\ ret' = null
            /\ UNCHANGED <<clientsCache, lsClients>>

\* a call of StorageService.payInstallment
PayInstallment ==
    \E loanId \in PayIds, installmentNumber \in PayNumbers, now \in Timestamps :
        /\ payInstallment(loanId, installmentNumber, now)
        /\ op' = [name |-> "pay", id |-> loanId, num |-> installmentNumber,
                  wasPaid |-> WasPaid(getLoans, loanId, installmentNumber)]
        /\ UNCHANGED <<clientsCache, lsClients>>

\* the page is loaded anew: the module starts with empty caches
Reload ==
    /\ ~IsAbsent(loansCache)
    /\ loansCache' = Absent
    /\ clientsCache' = Absent
    /\ op' = [name |-> "reload", id |-> null, num |-> 0, wasPaid |-> FALSE]
    /\ ret' = null
    /\ UNCHANGED <<lsLoans, lsClients>>

\* the <<loan id, installment number>> pairs that are Paid in a stored list
PaidPairs(loans) ==
    UNION {{<<loans[i].id, loans[i].installments[j].number>> :
                j \in {x \in 1..Len(loans[i].installments) :
                         loans[i].installments[x].status = PAID}} :
            i \in 1..Len(loans)}

\* the loans the storage item holds
Persisted(ls) == IF IsAbsent(ls) THEN <<>> ELSE The(ls)

\* every step of the ledger records the installments that are Paid after it
Tracked ==
    /\ everPaid' = everPaid \cup PaidPairs(Persisted(lsLoans'))
    /\ UNCHANGED <<schedVars, calVars, chainVars, viewVars, lastWrite>>

Init ==
    /\ loansCache = Absent /\ lsLoans = Absent /\ op = NoOp /\ ret = null /\ everPaid = {}
    /\ clientsCache = Absent /\ lsClients = Absent /\ lastWrite = NoWrites
    /\ schedIn = null /\ schedOut = Absent
    /\ calIn = NoCalIn /\ calEnd = EmptyDate /\ calDur = 0
    /\ chainStart = EmptyDate /\ chainDate = 0 /\ chainSteps = 0
    /\ viewInst = Absent /\ viewNow = NoClock /\ viewStatus = undefined

Next ==
    \/ LoadLoans /\ Tracked
    \/ CreateLoan /\ Tracked
    \/ EditLoan /\ Tracked
    \/ PayInstallment /\ Tracked
    \/ Reload /\ Tracked

Spec == Init /\ [][Next]_vars

\* the backup files restored in the settings page: one loan in arrears
\* ('En Mora'), a status no operation of the application sets itself
BackupFiles ==
    {[kind |-> "backup", clients |-> <<>>,
      loans |-> <<[Payload(f, FALSE, "loan-1",
                           calculateSchedule(f.amount, f.interestRate, f.interestType,
                                             f.frequency, f.duration, f.type,
                                             f.startDate, NoRates))
                     EXCEPT !.status = DEFAULTED]>>] :
        f \in {g \in Forms : g.amount = Whole(1000)}}

\* a backup file is restored, the storage having room for it
ImportData ==
    \E backup \in BackupFiles :
        /\ importData(backup, NoQuotaError)
        /\ op' = [name |-> "import", id |-> null, num |-> 0, wasPaid |-> FALSE]

NextImported ==
    \/ Next
    \/ ImportData /\ Tracked

SpecImported == Init /\ [][NextImported]_vars

(***************************************************************************)
(* The StorageService called directly, from an empty store: SpecStore      *)
(***************************************************************************)
\* the clients handleSubmit of the Clients page passes to saveClient: every
\* field of the form is required
StoreClients ==
    [id : {"client-1", "client-2"}, name : {"Ana", "Luis"}, dni : {"20111222"},
     phone : {"555-0101"}, address : {"Calle 1"}, createdAt : {"2024-01-01T10:00:00.000Z"}]

\* the loans passed to saveLoan and updateLoan: two ids, two amounts each
StoreLoanIds == {"loan-1", "loan-2"}
StoreForms == {f \in Forms : f.duration = 1 /\ f.type = SIMPLE}
StoreLoans ==
    {LoanPayload(f, FALSE, Absent, id) : f \in StoreForms, id \in StoreLoanIds}

\* the history after a save or update call: the object passed is the last
\* one written for its id
Written(last, record) ==
    [id \in DOMAIN last \cup {record.id} |-> IF id = record.id THEN record ELSE last[id]]

\* the history after a payInstallment call: the stored loan is the object that
\* was passed to the store, and the payment is written into that object
PaidInPlace(last, loanId, installmentNumber, now) ==
    IF loanId \notin DOMAIN last THEN last
    ELSE LET installmentIndex ==
                 FindInstallmentIndex(last[loanId].installments, installmentNumber)
         IN  IF installmentIndex = 0 THEN last
             ELSE [last EXCEPT ![loanId] = PayLoan(last[loanId], installmentIndex, now)]

StoreSaveClient ==
    \E client \in StoreClients :
        /\ saveClient(client)
        /\ lastWrite' = [lastWrite EXCEPT !.clients = Written(lastWrite.clients, client)]
        /\ op' = [name |-> "saveClient", id |-> client.id, num |-> 0, wasPaid |-> FALSE]
        /\ UNCHANGED <<loansCache, lsLoans, ret>>

StoreSaveLoan ==
    \E loan \in StoreLoans :
        /\ saveLoan(loan)
        /\ lastWrite' = [lastWrite EXCEPT !.loans = Written(lastWrite.loans, loan)]
        /\ op' = [name |-> "saveLoan", id |-> loan.id, num |-> 0, wasPaid |-> FALSE]
        /\ UNCHANGED <<clientsCache, lsClients, ret>>

StoreUpdateLoan ==
    \E loan \in StoreLoans :
        /\ updateLoan(loan)
        /\ lastWrite' = [lastWrite EXCEPT !.loans = Written(lastWrite.loans, loan)]
        /\ op' = [name |-> "updateLoan", id |-> loan.id, num |-> 0, wasPaid |-> FALSE]
        /\ UNCHANGED <<clientsCache, lsClients, ret>>

StorePayInstallment ==
    \E loanId \in StoreLoanIds, installmentNumber \in 1..2 :
        /\ payInstallment(loanId, installmentNumber, "2024-03-01T10:00:00.000Z")
        /\ lastWrite' = [lastWrite EXCEPT !.loans =
                            PaidInPlace(lastWrite.loans, loanId, installmentNumber,
                                        "2024-03-01T10:00:00.000Z")]
        /\ op' = [name |-> "pay", id |-> loanId, num |-> installmentNumber,
                  wasPaid |-> WasPaid(getLoans, loanId, installmentNumber)]
        /\ UNCHANGED <<clientsCache, lsClients>>

\* the page is loaded anew: the module starts with empty caches
StoreReload ==
    /\ ~IsAbsent(loansCache) \/ ~IsAbsent(clientsCache)
    /\ loansCache' = Absent
    /\ clientsCache' = Absent
    /\ op' = [name |-> "reload", id |-> null, num |-> 0, wasPaid |-> FALSE]
    /\ UNCHANGED <<lsLoans, lsClients, ret, lastWrite>>

StoreRest == UNCHANGED <<everPaid, schedVars, calVars, chainVars, viewVars>>

NextStore ==
    \/ StoreSaveClient /\ StoreRest
    \/ StoreSaveLoan /\ StoreRest
    \/ StoreUpdateLoan /\ StoreRest
    \/ StorePayInstallment /\ StoreRest
    \/ StoreReload /\ StoreRest

SpecStore == Init /\ [][NextStore]_vars

\* exportData is called: both lists are read through getClients and getLoans,
\* which fill the caches; the text returned leaves the program as a file
StoreExport ==
    /\ clientsCache' = Present(getClients)
    /\ loansCache' = Present(getLoans)
    /\ op' = [name |-> "export", id |-> null, num |-> 0, wasPaid |-> FALSE]
    /\ ret' = null
    /\ UNCHANGED <<lsClients, lsLoans, lastWrite>>

\* importData is called on the text exportData has just returned, which is
\* the text exportData would return again; the storage has room for it
StoreImportBack ==
    /\ op.name = "export"
    /\ importData(exportData, NoQuotaError)
    /\ op' = [name |-> "importBack", id |-> null, num |-> 0, wasPaid |-> FALSE]
    /\ UNCHANGED lastWrite

NextBackup ==
    \/ StoreSaveClient /\ StoreRest
    \/ StoreSaveLoan /\ StoreRest
    \/ StoreUpdateLoan /\ StoreRest
    \/ StorePayInstallment /\ StoreRest
    \/ StoreReload /\ StoreRest
    \/ StoreExport /\ StoreRest
    \/ StoreImportBack /\ StoreRest

SpecBackup == Init /\ [][NextBackup]_vars

(***************************************************************************)
(* Every operation of the StorageService, on a storage whose setItem can   *)
(* throw (QuotaExceededError): SpecService                                 *)
(***************************************************************************)
ServiceClients == {c \in StoreClients : c.id = "client-1" /\ c.name = "Ana"}
ServiceLoans == {l \in StoreLoans : l.id = "loan-1"}
ImportedClients == {c \in StoreClients : c.id = "client-2" /\ c.name = "Luis"}
ImportedLoans == {l \in StoreLoans : l.id = "loan-2" /\ l.amount = Whole(1200)}

\* the files given to importData: no content, broken text, a JSON scalar, a
\* backup without records, a backup of loans only, a backup of both
ServiceInputs ==
    {NoInput, CorruptInput, ScalarInput, BackupInput(<<>>, <<>>)}
    \cup {BackupInput(<<>>, <<l>>) : l \in ImportedLoans}
    \cup {BackupInput(<<c>>, <<l>>) : c \in ImportedClients, l \in ImportedLoans}

\* whether the localStorage.setItem of a save throws
SetItemThrows == BOOLEAN

ServiceGetClients ==
    /\ clientsCache' = Present(getClients)
    /\ op' = [name |-> "getClients", id |-> null, num |-> 0, wasPaid |-> FALSE]
    /\ UNCHANGED <<lsClients, lsLoans, loansCache, ret>>

ServiceGetLoans ==
    /\ loansCache' = Present(getLoans)
    /\ op' = [name |-> "getLoans", id |-> null, num |-> 0, wasPaid |-> FALSE]
    /\ UNCHANGED <<lsClients, lsLoans, clientsCache, ret>>

\* saveClient: when setItem throws, line 61 has assigned the cache already
ServiceSaveClient ==
    \E client \in ServiceClients, throws \in SetItemThrows :
        /\ IF throws
           THEN /\ clientsCache' = Present(SaveClientInto(getClients, client))
                /\ UNCHANGED lsClients
           ELSE saveClient(client)
        /\ op' = [name |-> "saveClient", id |-> client.id, num |-> 0, wasPaid |-> FALSE]
        /\ UNCHANGED <<lsLoans, loansCache, ret>>

\* saveLoan: when setItem throws, line 118 has assigned the cache already
ServiceSaveLoan ==
    \E loan \in ServiceLoans, throws \in SetItemThrows :
        /\ IF throws
           THEN /\ loansCache' = Present(SaveInto(getLoans, loan))
                /\ UNCHANGED lsLoans
           ELSE saveLoan(loan)
        /\ op' = [name |-> "saveLoan", id |-> loan.id, num |-> 0, wasPaid |-> FALSE]
        /\ UNCHANGED <<lsClients, clientsCache, ret>>

\* updateLoan: when setItem throws, line 128 has assigned the cache already
ServiceUpdateLoan ==
    \E loan \in ServiceLoans, throws \in SetItemThrows :
        /\ IF throws /\ FindLoanIndex(getLoans, loan.id) > 0
           THEN /\ loansCache' =
                      Present([getLoans EXCEPT ![FindLoanIndex(getLoans, loan.id)] = loan])
                /\ UNCHANGED lsLoans
           ELSE updateLoan(loan)
        /\ op' = [name |-> "updateLoan", id |-> loan.id, num |-> 0, wasPaid |-> FALSE]
        /\ UNCHANGED <<lsClients, clientsCache, ret>>

\* payInstallment: when setItem throws, the loan in the cache is paid already
\* and nothing is returned
ServicePayInstallment ==
    \E loanId \in {"loan-1", "loan-2"}, throws \in SetItemThrows :
        /\ IF throws /\ WasFound(getLoans, loanId, 1)
           THEN /\ loansCache' =
                      Present([getLoans EXCEPT ![FindLoanIndex(getLoans, loanId)] =
                                  PayLoan(@, FindInstallmentIndex(@.installments, 1),
                                          "2024-03-01T10:00:00.000Z")])
                /\ UNCHANGED <<lsLoans, ret>>
           ELSE payInstallment(loanId, 1, "2024-03-01T10:00:00.000Z")
        /\ op' = [name |-> "pay", id |-> loanId, num |-> 1,
                  wasPaid |-> WasPaid(getLoans, loanId, 1)]
        /\ UNCHANGED <<lsClients, clientsCache>>

ServiceImport ==
    \E jsonInput \in ServiceInputs, failsAt \in {NoQuotaError, CLIENTS_KEY, LOANS_KEY} :
        /\ importData(jsonInput, failsAt)
        /\ op' = [name |-> "import", id |-> failsAt, num |-> 0, wasPaid |-> FALSE]

ServiceClear ==
    /\ clearData
    /\ op' = [name |-> "clearData", id |-> null, num |-> 0, wasPaid |-> FALSE]
    /\ UNCHANGED ret

\* the page is loaded anew: the module starts with empty caches
ServiceReload ==
    /\ ~IsAbsent(loansCache) \/ ~IsAbsent(clientsCache)
    /\ loansCache' = Absent
    /\ clientsCache' = Absent
    /\ op' = [name |-> "reload", id |-> null, num |-> 0, wasPaid |-> FALSE]
    /\ UNCHANGED <<lsLoans, lsClients, ret>>

ServiceRest == UNCHANGED <<everPaid, schedVars, calVars, chainVars, viewVars, lastWrite>>

NextService ==
    \/ ServiceGetClients /\ ServiceRest
    \/ ServiceGetLoans /\ ServiceRest
    \/ ServiceSaveClient /\ ServiceRest
    \/ ServiceSaveLoan /\ ServiceRest
    \/ ServiceUpdateLoan /\ ServiceRest
    \/ ServicePayInstallment /\ ServiceRest
    \/ ServiceImport /\ ServiceRest
    \/ ServiceClear /\ ServiceRest
    \/ ServiceReload /\ ServiceRest

SpecService == Init /\ [][NextService]_vars

(***************************************************************************)
(* Claims about the ledger: payments, edits and the stored totals          *)
(***************************************************************************)
\* the loans of a list that carry the id
LoanOf(loans, id) == SelectSeq(loans, LAMBDA l : l.id = id)
\* the loan with the id that the operation of this step reads
Before(id) == LoanOf(getLoans, id)[1]
\* the loan with the id that is stored once the step is over
After(id) == LoanOf(Persisted(lsLoans'), id)[1]

\* the positions of the Paid installments
PaidIndices(installments) ==
    {i \in 1..Len(installments) : installments[i].status = PAID}
\* the positions of the installments whose number is Paid in the other list
CarriedIndices(installments, oldInstallments) ==
    {i \in 1..Len(installments) :
        \E j \in PaidIndices(oldInstallments) :
            oldInstallments[j].number = installments[i].number}

\* the sum of amount over the installments at the positions
RECURSIVE SumOver(_, _)
SumOver(installments, indices) ==
    IF indices = {} THEN Zero
    ELSE LET i == CHOOSE x \in indices : TRUE
         IN  Add(installments[i].amount, SumOver(installments, indices \ {i}))

\* this step is a payInstallment call that found its installment
PaySucceeded == op'.name = "pay" /\ ret' # null
\* this step is a payInstallment call for a loan or an installment number that
\* the loans it reads do not hold
PayTargetMissing ==
    /\ op'.name = "pay"
    /\ \A i \in 1..Len(getLoans) :
         getLoans[i].id = op'.id =>
            \A j \in 1..Len(getLoans[i].installments) :
                getLoans[i].installments[j].number # op'.num

\* C1: a payInstallment call for an installment number m the loan has sets that
\* installment, and no other, to Paid with a payment date; every other field of
\* it and every other installment stay as they were; totalPaid becomes the sum
\* of amount over the installments that are Paid after the call.
C1_PaymentFrame ==
    [][PaySucceeded =>
        LET old == Before(op'.id).installments
            new == After(op'.id).installments
        IN  /\ Len(new) = Len(old)
            /\ \A j \in 1..Len(old) :
                 IF old[j].number = op'.num
                 THEN /\ new[j].status = PAID
                      /\ new[j].paymentDate \in Timestamps
                      /\ [new[j] EXCEPT !.status = old[j].status,
                                        !.paymentDate = old[j].paymentDate] = old[j]
                 ELSE new[j] = old[j]
            /\ After(op'.id).totalPaid = SumOver(new, PaidIndices(new))]_vars

\* a payment of installment 2 has just succeeded on a loan in which another
\* installment is Paid already and a third is still Pending
C1_Witness ==
    /\ op.name = "pay" /\ op.num = 2 /\ ret # null
    /\ \E l \in {Persisted(lsLoans)[i] : i \in 1..Len(Persisted(lsLoans))} :
         /\ l.id = op.id
         /\ Len(l.installments) = 3
         /\ Cardinality(PaidIndices(l.installments)) = 2

\* C2: in every state reached by creating, editing and paying, each stored loan has
\* totalPayable equal to the sum of amount over its installments and totalPaid
\* equal to the sum of amount over its Paid installments.
C2_TotalsAreReductions ==
    \A loans \in {Persisted(lsLoans), Persisted(loansCache)} :
        \A i \in 1..Len(loans) :
            /\ loans[i].totalPayable =
                  SumOver(loans[i].installments, 1..Len(loans[i].installments))
            /\ loans[i].totalPaid =
                  SumOver(loans[i].installments, PaidIndices(loans[i].installments))

\* a loan that was paid and then edited: some but not all of its installments
\* are Paid and the totals are not trivial
C2_Witness ==
    /\ op.name = "edit"
    /\ \E i \in 1..Len(Persisted(lsLoans)) :
         LET l == Persisted(lsLoans)[i]
         IN  /\ PaidIndices(l.installments) # {}
             /\ PaidIndices(l.installments) # 1..Len(l.installments)
             /\ Lt(Zero, l.totalPaid) /\ Lt(l.totalPaid, l.totalPayable)

\* C3: once installment number n of a loan is Paid, it is Paid in every later
\* state in which the loan has an installment numbered n.
C3_OncePaidAlwaysPaid ==
    \A pair \in everPaid :
        \A i \in 1..Len(Persisted(lsLoans)) :
            LET l == Persisted(lsLoans)[i]
            IN  l.id = pair[1] =>
                    \A j \in 1..Len(l.installments) :
                        l.installments[j].number = pair[2] =>
                            l.installments[j].status = PAID

\* C4: after a payInstallment call that found its installment the loan is
\* Completed if all its installments are Paid, and keeps the status it had
\* before the call if one is not.
C4_StatusAfterPayment ==
    [][PaySucceeded =>
        LET old == Before(op'.id)
            new == After(op'.id)
        IN  IF PaidIndices(new.installments) = 1..Len(new.installments)
            THEN new.status = COMPLETED
            ELSE new.status = old.status]_vars

\* a payment has just succeeded on a loan in arrears that still has an
\* installment to pay: the loan is still in arrears
C4_Witness ==
    /\ op.name = "pay" /\ ret # null
    /\ \E i \in 1..Len(Persisted(lsLoans)) :
         LET l == Persisted(lsLoans)[i]
         IN  /\ l.id = op.id
             /\ l.status = DEFAULTED
             /\ PaidIndices(l.installments) # {}
             /\ PaidIndices(l.installments) # 1..Len(l.installments)

\* C5: a payInstallment call for an unknown loan id, or for an installment
\* number the loan does not carry, returns null to its caller and changes
\* neither the loans in memory nor the stored ones; a call that finds its
\* installment returns the loan, so the caller can tell the failure.
C5_NotFoundChangesNothing ==
    [][/\ PayTargetMissing =>
            /\ ret' = null
            /\ lsLoans' = lsLoans
            /\ Persisted(loansCache') = getLoans
       /\ (op'.name = "pay" /\ ~PayTargetMissing) => ret' = op'.id]_vars

\* installment number 4 of a stored loan has just been asked for: the loan has
\* three installments, one of them Paid, and the call returned null
C5_Witness ==
    /\ op.name = "pay" /\ op.num = 4 /\ ret = null
    /\ \E i \in 1..Len(Persisted(lsLoans)) :
         LET l == Persisted(lsLoans)[i]
         IN  /\ l.id = op.id
             /\ Len(l.installments) = 3
             /\ PaidIndices(l.installments) # {}

\* the schedule generated from the terms of a loan
GeneratedFor(loan) ==
    calculateSchedule(loan.amount, loan.interestRate, loan.interestType, loan.frequency,
                      loan.duration, loan.type, loan.startDate, NoRates)

\* the loan is what the edit of a loan with the installments old is to store,
\* fresh being the schedule generated from its terms
CarriesPaidByNumber(old, loan, fresh) ==
    /\ Len(loan.installments) = Len(fresh)
    /\ \A n \in 1..Len(fresh) :
         LET inst == loan.installments[n]
         IN  /\ [inst EXCEPT !.status = PENDING, !.paymentDate = undefined] = fresh[n]
             /\ IF n \in CarriedIndices(fresh, old)
                THEN /\ inst.status = PAID
                     /\ \E j \in PaidIndices(old) :
                          /\ old[j].number = fresh[n].number
                          /\ inst.paymentDate = old[j].paymentDate
                ELSE /\ inst.status = PENDING
                     /\ inst.paymentDate = undefined
    /\ loan.totalPaid = SumOver(fresh, CarriedIndices(fresh, old))

\* C6: an edit replaces the installments by the schedule generated from the new
\* terms; installment n of it is Paid with the old payment date if the old list
\* had a Paid installment numbered n and Pending otherwise, with the amount,
\* capital and interest generated for n; totalPaid is the sum of the generated
\* amounts of the installments carried as Paid.
C6_EditCarriesPaidByNumber ==
    [][op'.name = "edit" =>
        \A old \in {Before(op'.id).installments}, loan \in {After(op'.id)} :
            \A fresh \in {GeneratedFor(loan)} :
                CarriesPaidByNumber(old, loan, fresh)]_vars

\* an edit has just been saved on a loan of 1200 with a Paid installment,
\* recorded at the later of the two payment times, and a Pending one
C6_Witness ==
    /\ op.name = "edit"
    /\ \E i \in 1..Len(Persisted(lsLoans)) :
         LET l == Persisted(lsLoans)[i]
         IN  /\ l.id = op.id
             /\ l.amount = Whole(1200)
             /\ \E j \in PaidIndices(l.installments) :
                  l.installments[j].paymentDate = "2024-04-01T10:00:00.000Z"
             /\ PaidIndices(l.installments) # 1..Len(l.installments)

(***************************************************************************)
(* Claims about calculateSchedule (SpecSched)                              *)
(***************************************************************************)
RECURSIVE SumCapital(_)
SumCapital(installments) ==
    IF installments = <<>> THEN Zero
    ELSE Add(Head(installments).capital, SumCapital(Tail(installments)))

OneCent == <<1, 100>>

\* a <= b
Le(a, b) == Sub(a, b)[1] <= 0

\* C7: for every generated schedule (both methods, both interest modes, with or
\* without rate overrides) the capital portions add up to the principal to
\* within one cent.
C7_CapitalSumsToPrincipal ==
    ~IsAbsent(schedOut) =>
        LET diff == Sub(SumCapital(The(schedOut)), schedIn.amount)
        IN  Le(diff, OneCent) /\ Le(Sub(Zero, diff), OneCent)

\* the schedule of the chosen arguments without any rate override
BaseSchedule ==
    calculateSchedule(schedIn.amount, schedIn.rate, schedIn.interestType, schedIn.frequency,
                      schedIn.duration, schedIn.loanType, schedIn.startDate, NoRates)

\* the balance the French loop holds after installment j of the schedule
\* without override
BaseBalanceAfter(j) ==
    FrenchRun(schedIn.amount, schedIn.rate, schedIn.frequency, schedIn.duration,
              schedIn.startDate, NoRates, j).remainingCapital

\* a French loan taken afresh at installment k: the balance left as principal,
\* the installments still to pay as term, the override rate as rate
FreshSchedule(k) ==
    calculateSchedule(BaseBalanceAfter(k - 1), schedIn.variableRates[k], PERCENTAGE,
                      schedIn.frequency, schedIn.duration - k + 1, FRENCH,
                      schedIn.startDate, NoRates)

\* a French Percentage schedule generated with one rate override
OneOverride ==
    /\ ~IsAbsent(schedOut)
    /\ schedIn.loanType = FRENCH
    /\ schedIn.interestType = PERCENTAGE
    /\ Cardinality(DOMAIN schedIn.variableRates) = 1

\* C8: in French mode with Percentage interest a rate override at installment k
\* leaves installments 1..k-1 as generated without it, and installments
\* k..duration pay what a fresh French loan of the remaining balance over the
\* remaining duration - k + 1 terms at the override rate pays.
C8_OverrideReamortizes ==
    OneOverride =>
        LET k == CHOOSE x \in DOMAIN schedIn.variableRates : TRUE
        IN  /\ \A j \in 1..(k - 1) : The(schedOut)[j] = BaseSchedule[j]
            /\ \A j \in k..schedIn.duration :
                 The(schedOut)[j].amount = FreshSchedule(k)[j - k + 1].amount

\* an override in the middle of a schedule that changes the payment
C8_Witness ==
    /\ OneOverride
    /\ \E k \in DOMAIN schedIn.variableRates :
         /\ 1 < k /\ k < schedIn.duration
         /\ schedIn.variableRates[k] # schedIn.rate
         /\ The(schedOut)[k].amount # The(schedOut)[k - 1].amount
         /\ The(schedOut)[k].amount # BaseSchedule[k].amount

(***************************************************************************)
(* Claims about the calendar helpers (SpecCal, SpecChain)                  *)
(***************************************************************************)
\* C9: counting the periods between a start date and that date advanced by n
\* periods gives n back, for every frequency and every n up to MaxPeriods.
C9_RoundTrip == calDur # 0 => calDur = calIn.n

\* a Monthly round trip from a day 29-31 whose end date rolled over
C9_Witness ==
    /\ calDur = calIn.n
    /\ calIn.frequency = MONTHLY
    /\ calIn.start.d >= 29
    /\ calEnd.d < calIn.start.d
    /\ calIn.n > 1

\* the single call addTime(d, MONTHLY, chainSteps) on the start date of the chain
SingleCall == addTime(parseDate(chainStart), MONTHLY, chainSteps)

DayExistsInMonths(n) ==
    \A j \in 1..n :
        LET ym == chainStart.y * 12 + (chainStart.m - 1) + j
        IN  chainStart.d <= DaysInMonth(ym \div 12, (ym % 12) + 1)

Counted == op.name = "duration"

\* C11: calculateDurationFromDates never returns less than 1, and returns 1
\* whenever the end date is not after the start date.
C11_DurationAtLeastOne ==
    Counted =>
        /\ calDur >= 1
        /\ parseDate(calEnd) <= parseDate(calIn.start) => calDur = 1

\* an end date after the start date but before the start date advanced by one
\* period: no period fits, 1 is returned
C11_Witness ==
    /\ Counted
    /\ parseDate(calEnd) > parseDate(calIn.start)
    /\ parseDate(calEnd) < addTime(parseDate(calIn.start), calIn.frequency, 1)
    /\ calDur = 1

\* C12: calculateDurationFromDates counts at most LoopLimit periods, and
\* returns LoopLimit when the end date lies that many periods or more after
\* the start date.
C12_DurationCapped ==
    Counted =>
        /\ calDur <= LoopLimit
        /\ parseDate(calEnd) >= addTime(parseDate(calIn.start), calIn.frequency, LoopLimit)
              => calDur = LoopLimit

\* an end date more than a hundred years of months after the start date
C12_Witness ==
    /\ Counted
    /\ calIn.frequency = MONTHLY
    /\ parseDate(calEnd) > addTime(parseDate(calIn.start), MONTHLY, LoopLimit)
    /\ calDur = LoopLimit

(***************************************************************************)
(* Claims about getInstallmentStatus (SpecView)                            *)
(***************************************************************************)
\* the calendar date a is after the calendar date b
CivilAfter(a, b) ==
    \/ a.y > b.y
    \/ a.y = b.y /\ a.m > b.m
    \/ a.y = b.y /\ a.m = b.m /\ a.d > b.d

\* C13: getInstallmentStatus returns Paid for an installment recorded Paid
\* whatever the date; for any other installment it returns Late exactly when
\* today's date is after the due date and Pending otherwise, the due date
\* itself included; the installment is left as it was.
C13_DisplayedStatus ==
    /\ [](viewStatus # undefined =>
            \A inst \in {The(viewInst)} :
               /\ inst.status = PAID => viewStatus = PAID
               /\ inst.status # PAID /\ CivilAfter(viewNow.date, inst.dueDate)
                     => viewStatus = LATE
               /\ inst.status # PAID /\ ~CivilAfter(viewNow.date, inst.dueDate)
                     => viewStatus = PENDING)
    /\ [][viewInst' = viewInst]_vars

\* an unpaid installment rendered late in the evening of its due date is Pending
C13_Witness ==
    /\ viewStatus = PENDING
    /\ The(viewInst).status # PAID
    /\ viewNow.date = The(viewInst).dueDate
    /\ viewNow.minute = MinutesPerDay - 1

(***************************************************************************)
(* Claims about calculateSchedule on any duration (SpecSchedAny)           *)
(***************************************************************************)
\* C14: calculateSchedule called with a duration below 1 does not return a
\* schedule of zero installments (it rejects the call with an error value).
C14_RejectsDurationBelowOne ==
    (~IsAbsent(schedOut) /\ schedIn.duration < 1) => Len(The(schedOut)) # 0

(***************************************************************************)
(* Claims about the store called directly (SpecStore)                      *)
(***************************************************************************)
\* no two records of the list carry the same id
UniqueIds(list) == \A i, j \in 1..Len(list) : list[i].id = list[j].id => i = j

\* every record of the list is the object last written for its id
HoldsLastWritten(list, last) ==
    \A i \in 1..Len(list) : list[i].id \in DOMAIN last /\ list[i] = last[list[i].id]

FrenchNoOverrides ==
    /\ ~IsAbsent(schedOut)
    /\ schedIn.loanType = FRENCH
    /\ schedIn.interestType = PERCENTAGE
    /\ DOMAIN schedIn.variableRates = {}

\* the variable remainingCapital of the French loop after the pass for
\* installment `last`
RemainingCapitalAfter(last) ==
    FrenchRun(schedIn.amount, schedIn.rate, schedIn.frequency, schedIn.duration,
              schedIn.startDate, schedIn.variableRates, last).remainingCapital

\* C16: for the French method without rate overrides, the remaining capital
\* after the pass for the final installment is exactly 0.
C16_FinalBalanceZero ==
    FrenchNoOverrides => RemainingCapitalAfter(schedIn.duration) = Zero

\* a schedule of three installments that still owes capital before the last one
C16_Witness ==
    /\ FrenchNoOverrides
    /\ schedIn.duration = 3
    /\ Lt(Zero, RemainingCapitalAfter(2))
    /\ RemainingCapitalAfter(3) = Zero
    /\ The(schedOut)[3].capital = RemainingCapitalAfter(2)

(***************************************************************************)
(* Claims about the last payment of a loan (Spec)                          *)
(***************************************************************************)
\* the installment with the number is Pending and every other one is Paid
OnlyPendingIs(installments, number) ==
    /\ \E j \in 1..Len(installments) : installments[j].number = number
    /\ \A j \in 1..Len(installments) :
         IF installments[j].number = number THEN installments[j].status = PENDING
         ELSE installments[j].status = PAID

\* C17: a payInstallment call on the only installment of a loan that is still
\* Pending, all its other installments being Paid, leaves the loan Completed
\* with totalPaid equal to totalPayable.
C17_LastPaymentCompletes ==
    [][(PaySucceeded /\ OnlyPendingIs(Before(op'.id).installments, op'.num)) =>
        \A new \in {After(op'.id)} :
            /\ new.status = COMPLETED
            /\ new.totalPaid = new.totalPayable]_vars

\* installment 2 of three has just been paid after installments 1 and 3, and
\* the loan is Completed
C17_Witness ==
    /\ op.name = "pay" /\ op.num = 2 /\ ret # null
    /\ \E l \in {Persisted(lsLoans)[i] : i \in 1..Len(Persisted(lsLoans))} :
         /\ l.id = op.id
         /\ Len(l.installments) = 3
         /\ l.status = COMPLETED
         /\ l.totalPaid = l.totalPayable
         /\ l.installments[1].paymentDate = "2024-03-01T10:00:00.000Z"
         /\ l.installments[3].paymentDate = "2024-03-01T10:00:00.000Z"
         /\ l.installments[2].paymentDate = "2024-04-01T10:00:00.000Z"

(***************************************************************************)
(* Claims about addTime (SpecCal)                                          *)
(***************************************************************************)
\* the number of days from the calendar date a to the calendar date b
DaysBetween(a, b) == DaysFromCivil(b.y, b.m, b.d) - DaysFromCivil(a.y, a.m, a.d)

\* the calendar date count months after the date: the same day of the month
\* when the target month has it, otherwise as many days into the following
\* month as the day exceeds the length of the target month
MonthsLater(date, count) ==
    LET t == date.y * 12 + (date.m - 1) + count
        len == DaysInMonth(t \div 12, (t % 12) + 1)
    IN  IF date.d <= len THEN DateStr(t \div 12, (t % 12) + 1, date.d)
        ELSE DateStr((t + 1) \div 12, ((t + 1) % 12) + 1, date.d - len)

\* C18: addTime(date, frequency, count) is the date count days later for Daily,
\* 7 * count days later for Weekly, 15 * count days later for Biweekly, and
\* count calendar months later for Monthly, the day of the month kept when the
\* target month has it and rolled over into the following month when not.
C18_PeriodLengths ==
    calEnd # EmptyDate =>
        CASE calIn.frequency = DAILY -> DaysBetween(calIn.start, calEnd) = calIn.n
          [] calIn.frequency = WEEKLY -> DaysBetween(calIn.start, calEnd) = 7 * calIn.n
          [] calIn.frequency = BIWEEKLY -> DaysBetween(calIn.start, calEnd) = 15 * calIn.n
          [] calIn.frequency = MONTHLY -> calEnd = MonthsLater(calIn.start, calIn.n)

\* thirteen months after 31 January 2023 is 31 February 2024, which is 2 March
C18_Witness ==
    /\ calIn = [start |-> DateStr(2023, 1, 31), frequency |-> MONTHLY, n |-> 13]
    /\ calEnd = DateStr(2024, 3, 2)
    /\ calEnd = MonthsLater(calIn.start, calIn.n)

(***************************************************************************)
(* Claims about the shape of a schedule (SpecSched) and its dates (Spec)   *)
(***************************************************************************)
\* C19: for every duration >= 1, each method and each interest mode,
\* calculateSchedule returns exactly duration installments, numbered
\* 1, 2, ..., duration in list order, each Pending and without a paymentDate.
C19_ScheduleShape ==
    ~IsAbsent(schedOut) =>
        /\ Len(The(schedOut)) = schedIn.duration
        /\ \A i \in 1..Len(The(schedOut)) :
             /\ The(schedOut)[i].number = i
             /\ The(schedOut)[i].status = PENDING
             /\ The(schedOut)[i].paymentDate = undefined

\* a French schedule of three installments with a rate override on the second
C19_Witness ==
    /\ ~IsAbsent(schedOut)
    /\ schedIn.loanType = FRENCH /\ schedIn.interestType = PERCENTAGE
    /\ schedIn.duration = 3
    /\ DOMAIN schedIn.variableRates = {2}
    /\ Len(The(schedOut)) = 3
    /\ The(schedOut)[3].number = 3

\* the calendar date count periods of the frequency after the start date,
\* counted from the start date in one step
PeriodsLater(start, frequency, count) ==
    CASE frequency = DAILY -> CivilFromDays(DaysFromCivil(start.y, start.m, start.d) + count)
      [] frequency = WEEKLY -> CivilFromDays(DaysFromCivil(start.y, start.m, start.d) + 7 * count)
      [] frequency = BIWEEKLY -> CivilFromDays(DaysFromCivil(start.y, start.m, start.d) + 15 * count)
      [] frequency = MONTHLY -> MonthsLater(start, count)

\* C20: the due date of installment i of every stored loan is its start date
\* advanced by i periods in one step, and its endDate is the due date of its
\* last installment.
C20_DueDatesFromStart ==
    \A i \in 1..Len(Persisted(lsLoans)) :
        \A l \in {Persisted(lsLoans)[i]} :
            /\ \A j \in 1..Len(l.installments) :
                 l.installments[j].dueDate =
                    PeriodsLater(l.startDate, l.frequency, l.installments[j].number)
            /\ Len(l.installments) > 0 => l.endDate = l.installments[Len(l.installments)].dueDate

\* a monthly loan from 31 January 2024 with three installments: they fall due
\* on 2 March, 31 March and 1 May, where chained steps end on 2 May
C20_Witness ==
    \E i \in 1..Len(Persisted(lsLoans)) :
        \E l \in {Persisted(lsLoans)[i]} :
            /\ l.startDate = DateStr(2024, 1, 31) /\ l.frequency = MONTHLY
            /\ Len(l.installments) = 3
            /\ l.installments[1].dueDate = DateStr(2024, 3, 2)
            /\ l.installments[2].dueDate = DateStr(2024, 3, 31)
            /\ l.installments[3].dueDate = DateStr(2024, 5, 1)
            /\ l.endDate = DateStr(2024, 5, 1)

(***************************************************************************)
(* Claims about the Simple branch and the French fallback (SpecSched)      *)
(***************************************************************************)
\* the rate in force at installment i: the override with the largest key <= i,
\* the initial rate when there is none
ActiveRate(i) ==
    LET keys == {k \in DOMAIN schedIn.variableRates : k <= i}
    IN  IF keys = {} THEN schedIn.rate
        ELSE schedIn.variableRates[CHOOSE k \in keys : \A other \in keys : other <= k]

\* a schedule of the Simple method has been generated
SimpleGenerated == ~IsAbsent(schedOut) /\ schedIn.loanType = SIMPLE

\* C21: in the Simple method every installment has capital principal / duration,
\* and interest activeRate_i / duration in FixedAmount mode and
\* (principal * activeRate_i / 100) / duration in Percentage mode, activeRate_i
\* being the override with the largest key <= i or else the initial rate.
C21_SimpleInstallments ==
    SimpleGenerated =>
        \A i \in 1..Len(The(schedOut)) :
            /\ The(schedOut)[i].capital = Div(schedIn.amount, Whole(schedIn.duration))
            /\ The(schedOut)[i].interest =
                  IF schedIn.interestType = FIXED_AMOUNT
                  THEN Div(ActiveRate(i), Whole(schedIn.duration))
                  ELSE Div(Div(Mul(schedIn.amount, ActiveRate(i)), Whole(100)),
                           Whole(schedIn.duration))

\* three installments with an override on the second only: the third still
\* pays interest at the override rate, over the full duration
C21_Witness ==
    /\ SimpleGenerated
    /\ schedIn.interestType = PERCENTAGE
    /\ schedIn.duration = 3
    /\ DOMAIN schedIn.variableRates = {2}
    /\ schedIn.variableRates[2] # schedIn.rate
    /\ The(schedOut)[3].interest = The(schedOut)[2].interest
    /\ The(schedOut)[3].interest # The(schedOut)[1].interest

\* a French call with a fixed interest amount has returned
FrenchFixedGenerated ==
    /\ ~IsAbsent(schedOut)
    /\ schedIn.loanType = FRENCH
    /\ schedIn.interestType = FIXED_AMOUNT

\* the schedule of the Simple method for the arguments of the call
SimpleCounterpart ==
    calculateSchedule(schedIn.amount, schedIn.rate, schedIn.interestType, schedIn.frequency,
                      schedIn.duration, SIMPLE, schedIn.startDate, schedIn.variableRates)

\* C22: calculateSchedule with method French and interest mode FixedAmount
\* returns the same installment list as with method Simple and the same other
\* arguments, rate overrides included.
C22_FrenchFixedIsSimple == FrenchFixedGenerated => The(schedOut) = SimpleCounterpart

\* a French fixed-amount call of three installments with an override: the
\* capital is spread evenly, which the annuity formula would not do
C22_Witness ==
    /\ FrenchFixedGenerated
    /\ schedIn.duration = 3
    /\ schedIn.rate = Whole(10)
    /\ DOMAIN schedIn.variableRates = {2}
    /\ The(schedOut)[1].capital = The(schedOut)[3].capital
    /\ The(schedOut)[2].interest # The(schedOut)[1].interest

(***************************************************************************)
(* Claims about repeated payments and what a payment leaves alone (Spec)   *)
(***************************************************************************)
\* this step is a payInstallment call on an installment that is Paid already
RepaySucceeded ==
    /\ PaySucceeded
    /\ \E j \in 1..Len(Before(op'.id).installments) :
         /\ Before(op'.id).installments[j].number = op'.num
         /\ Before(op'.id).installments[j].status = PAID

\* the loan with the payment date of the installment with the number set
WithPaymentDate(loan, number, paymentDate) ==
    [loan EXCEPT !.installments =
        [j \in 1..Len(loan.installments) |->
            IF loan.installments[j].number = number
            THEN [loan.installments[j] EXCEPT !.paymentDate = paymentDate]
            ELSE loan.installments[j]]]

\* C23: a payInstallment call on an installment that is already Paid succeeds;
\* the installment stays Paid, every other installment, totalPaid, totalPayable
\* and the loan status stay as they were, and only the paymentDate of that
\* installment is replaced by the new timestamp.
C23_RepayOverwritesDateOnly ==
    [][RepaySucceeded =>
        \A old \in {Before(op'.id)}, new \in {After(op'.id)} :
            \E now \in Timestamps : new = WithPaymentDate(old, op'.num, now)]_vars

\* installment 1 of a loan with a Pending installment left has been paid a
\* second time, and carries the later timestamp
C23_Witness ==
    /\ op.name = "pay" /\ op.num = 1 /\ op.wasPaid /\ ret # null
    /\ \E l \in {Persisted(lsLoans)[i] : i \in 1..Len(Persisted(lsLoans))} :
         /\ l.id = op.id
         /\ l.status = ACTIVE
         /\ l.installments[1].status = PAID
         /\ l.installments[1].paymentDate = "2024-04-01T10:00:00.000Z"
         /\ l.totalPaid = l.installments[1].amount

\* the fields of a loan that describe its terms, and the length of its schedule
Terms(loan) ==
    [totalPayable |-> loan.totalPayable, amount |-> loan.amount,
     interestRate |-> loan.interestRate, frequency |-> loan.frequency,
     duration |-> loan.duration, startDate |-> loan.startDate, endDate |-> loan.endDate,
     installments |-> Len(loan.installments)]

\* C24: a payInstallment call, successful or not, leaves totalPayable, the
\* principal, the rate, the frequency, the duration, the start date, the end
\* date and the number of installments of every stored loan as they were.
C24_PaymentKeepsTerms ==
    [][op'.name = "pay" =>
        \A old \in {getLoans}, new \in {Persisted(lsLoans')} :
            /\ Len(new) = Len(old)
            /\ \A i \in 1..Len(old) :
                 /\ new[i].id = old[i].id
                 /\ Terms(new[i]) = Terms(old[i])]_vars

\* a first payment of installment 3 has gone through on a loan of three
\* installments: two are Paid, and totalPayable is still the sum of all three
C24_Witness ==
    /\ op.name = "pay" /\ op.num = 3 /\ ~op.wasPaid /\ ret # null
    /\ \E l \in {Persisted(lsLoans)[i] : i \in 1..Len(Persisted(lsLoans))} :
         /\ l.id = op.id
         /\ l.duration = 3
         /\ Cardinality(PaidIndices(l.installments)) = 2
         /\ l.totalPayable = SumOver(l.installments, 1..3)
         /\ Lt(l.totalPaid, l.totalPayable)

(***************************************************************************)
(* Claims about the French branch with rate overrides (SpecSched)          *)
(***************************************************************************)
\* a schedule of the French branch proper has been generated
FrenchGenerated ==
    /\ ~IsAbsent(schedOut)
    /\ schedIn.loanType = FRENCH
    /\ schedIn.interestType = PERCENTAGE

\* the installment at which the payment in force at installment k was computed:
\* the largest override key <= k, installment 1 when there is none
ComputedAt(k) ==
    LET keys == {1} \cup {x \in DOMAIN schedIn.variableRates : x <= k}
    IN  CHOOSE x \in keys : \A other \in keys : other <= x

\* the running balance before installment k, from the capital portions of the
\* schedule returned: the principal less the capital of installments 1..k-1,
\* set to 0 whenever it falls below one cent
RECURSIVE BalanceBefore(_)
BalanceBefore(k) ==
    IF k = 1 THEN schedIn.amount
    ELSE LET left == Sub(BalanceBefore(k - 1), The(schedOut)[k - 1].capital)
         IN  IF Lt(left, OneCent) THEN Zero ELSE left

\* C25: in a French Percentage schedule every installment but the final one has
\* the total amount of the most recent installment at which the payment was
\* computed (installment 1 or one with a rate override), and the interest of
\* each installment is the running balance before it times the active rate
\* per period.
C25_PaymentHeldBetweenOverrides ==
    FrenchGenerated =>
        /\ \A k \in 1..(schedIn.duration - 1) :
             The(schedOut)[k].amount = The(schedOut)[ComputedAt(k)].amount
        /\ \A k \in 1..schedIn.duration :
             The(schedOut)[k].interest =
                Div(Mul(BalanceBefore(k), ActiveRate(k)), Whole(100))

\* three installments with an override on the first only: the second keeps the
\* payment of the first, at a rate that is not the initial one
C25_Witness ==
    /\ FrenchGenerated
    /\ schedIn.duration = 3
    /\ DOMAIN schedIn.variableRates = {1}
    /\ schedIn.variableRates[1] # schedIn.rate
    /\ The(schedOut)[2].amount = The(schedOut)[1].amount
    /\ Lt(The(schedOut)[2].interest, The(schedOut)[1].interest)
    /\ Lt(Zero, The(schedOut)[2].interest)

(***************************************************************************)
(* Claims about the caches and about importData (SpecService)              *)
(***************************************************************************)
\* C26: whenever the clients cache or the loans cache is populated, its content
\* equals the list persisted under the corresponding storage key.
C26_CacheCoherent ==
    /\ ~IsAbsent(clientsCache) => The(clientsCache) = Persisted(lsClients)
    /\ ~IsAbsent(loansCache) => The(loansCache) = Persisted(lsLoans)

\* C27: an importData call that returns success = false leaves the persisted
\* clients, the persisted loans and both caches exactly as they were.
C27_FailedImportChangesNothing ==
    [][(op'.name = "import" /\ ret' = "failure") =>
        <<lsClients, lsLoans, clientsCache, loansCache>>' =
            <<lsClients, lsLoans, clientsCache, loansCache>>]_vars

(***************************************************************************)
(* Claims about the status of a loan (Spec)                                *)
(***************************************************************************)
\* C28: in every state reached by creating, editing and paying loans of
\* duration >= 1, a loan is Completed if and only if all of its installments
\* are Paid, and otherwise it is Active: no loan is ever Defaulted.
C28_CompletedIffAllPaid ==
    \A loans \in {Persisted(lsLoans), Persisted(loansCache)} :
        \A i \in 1..Len(loans) :
            IF \A j \in 1..Len(loans[i].installments) : loans[i].installments[j].status = PAID
            THEN loans[i].status = COMPLETED
            ELSE loans[i].status = ACTIVE

\* a Completed loan has just been edited to a longer schedule: its new
\* installment is Pending and the loan is Active again
C28_Witness ==
    /\ op.name = "edit" /\ op.wasPaid
    /\ \E l \in {Persisted(lsLoans)[i] : i \in 1..Len(Persisted(lsLoans))} :
         /\ l.id = op.id
         /\ Len(l.installments) = 3
         /\ l.installments[1].status = PAID
         /\ l.installments[2].status = PAID
         /\ l.installments[3].status = PENDING
         /\ l.status = ACTIVE

(***************************************************************************)
(* Claims about the order of the due dates (SpecDated)                     *)
(***************************************************************************)
\* the calendar date a is earlier than the calendar date b
Earlier(a, b) ==
    \/ a.y < b.y
    \/ a.y = b.y /\ a.m < b.m
    \/ a.y = b.y /\ a.m = b.m /\ a.d < b.d

\* C29: in every generated schedule, whatever the frequency, the method and
\* the start date, an installment with a smaller number falls due strictly
\* earlier than one with a larger number; this includes Monthly schedules from
\* day 29, 30 or 31, where a short month rolls over into the next one.
C29_DueDatesIncrease ==
    ~IsAbsent(schedOut) =>
        \A i, j \in 1..Len(The(schedOut)) :
            The(schedOut)[i].number < The(schedOut)[j].number =>
                Earlier(The(schedOut)[i].dueDate, The(schedOut)[j].dueDate)

\* a monthly schedule from 31 January 2023: February rolls over to 3 March,
\* which is still before 31 March, and April rolls over to 1 May
C29_Witness ==
    /\ ~IsAbsent(schedOut)
    /\ schedIn.frequency = MONTHLY /\ schedIn.startDate = DateStr(2023, 1, 31)
    /\ Len(The(schedOut)) = 3
    /\ The(schedOut)[1].dueDate = DateStr(2023, 3, 3)
    /\ The(schedOut)[2].dueDate = DateStr(2023, 3, 31)
    /\ The(schedOut)[3].dueDate = DateStr(2023, 5, 1)

(***************************************************************************)
(* Claims about the backup round trip (SpecBackup)                         *)
(***************************************************************************)
\* C30: importData applied to what exportData returns succeeds and leaves the
\* persisted clients and loans as they were (every field of every loan and of
\* every installment included) when the store holds a client or a loan saved
\* by the application, and fails when the store is empty.
C30_BackupRoundTrip ==
    [][op'.name = "importBack" /\ op.name = "export" =>
          IF Persisted(lsClients) = <<>> /\ Persisted(lsLoans) = <<>>
          THEN ret' = "failure"
          ELSE /\ ret' = "success"
               /\ Persisted(lsClients') = Persisted(lsClients)
               /\ Persisted(lsLoans') = Persisted(lsLoans)]_vars

\* a round trip has succeeded on a store with a client and a loan whose
\* installment is Paid with its payment date
C30_Witness ==
    /\ op.name = "importBack" /\ ret = "success"
    /\ Len(Persisted(lsClients)) > 0
    /\ \E i \in 1..Len(Persisted(lsLoans)) :
         \E l \in {Persisted(lsLoans)[i]} :
            /\ l.status = COMPLETED
            /\ l.installments[1].status = PAID
            /\ l.installments[1].paymentDate = "2024-03-01T10:00:00.000Z"
            /\ l.totalPaid = l.totalPayable

=============================================================================
